---------------------------- MODULE Spec2Model ----------------------------
(***************************************************************************)
(* Model of the web-automator-js driver layer:                             *)
(*   - BaseSeleniumDriver, its Chrome/Firefox/Edge subclasses and          *)
(*     PlaywrightDriver (lifecycle, interaction operations, quit order);   *)
(*   - SeleniumUtils.safeClick / safeSendKeys (retry loops) and            *)
(*     getElementText;                                                     *)
(*   - the selector resolvers: SeleniumUtils.getSmartSelector, findElement *)
(*     and findElements of BaseSeleniumDriver, PlaywrightUtils             *)
(*     .getSelectorInfo;                                                   *)
(*   - the timed operations (per-call timeouts, engine waits);             *)
(*   - takeScreenshot with the files and directories it leaves;            *)
(*   - the lifecycle of a BaseSeleniumDriver and a PlaywrightDriver given  *)
(*     the same calls, and start() called again before it has finished;    *)
(*   - lambda_handler, ConfigManager (get, set, has, getAll) and the       *)
(*     container monitor;                                                  *)
(*   - PlaywrightUtils.smartClick and findElementWithFallback.             *)
(* The browser engine is the environment: every engine or filesystem call  *)
(* a handler awaits may succeed or throw.                                  *)
(***************************************************************************)
EXTENDS Integers, Sequences, FiniteSets, TLC

VARIABLES
  kind,        \* class of the driver instance
  options,     \* this.options (the fields the handlers read)
  env,         \* process.env and the serverless resolver, as start() sees them
  isStarted,   \* this.isStarted
  driver,      \* BaseSeleniumDriver: this.driver (0 = null, else session id)
  browser,     \* PlaywrightDriver: this.browser (0 = null)
  context,     \* PlaywrightDriver: this.context (0 = null)
  page,        \* PlaywrightDriver: this.page (0 = null)
  currentUrl,  \* this.currentUrl ("null" = null)
  launched,    \* number of engine sessions / browser processes launched so far
  openRes,     \* engine side: the resources that are open, <<id, part>>
  last,        \* history: the most recent call, what it issued and how it ended
  hasQuit,     \* history: a quit() of this instance has completed
  rfn,         \* retry helper being run: "safeClick" or "safeSendKeys"
  rargs,       \* its arguments: maxRetries, retryDelay, clearFirst
  attempt,     \* the loop variable `attempt`
  rpc,         \* position inside the helper
  element,     \* the `element` constant of the current iteration (0 = unset)
  handles,     \* number of element handles the engine has handed out
  events,      \* history: what the helper has done so far, in order
  routcome,    \* "running", "true", "false" or "rejected"
  selector,    \* the selector string given to the resolvers
  locator,     \* what getSmartSelector returned for it ("none" before the call)
  findElementBy,   \* the `by` BaseSeleniumDriver.findElement built for it
  findElementsBy,  \* the `by` BaseSeleniumDriver.findElements built for it
  selectorInfo,    \* what PlaywrightUtils.getSelectorInfo returned for it
  wdriver,     \* timed operation: the driver it runs on ("selenium" / "playwright")
  woptions,    \* its this.options.timeout and this.options.implicitWait
  wop,         \* the operation
  wtimeout,    \* its `timeout` argument: whether supplied, and the value
  wstep,       \* index of the next engine call of the operation
  applied,     \* history: the timeouts handed to the engine waits, in order
  elapsed,     \* milliseconds since the operation was called
  woutcome,    \* "running", "ok", "notFound", "failed" or "hung"
  cdriver,     \* screenshots: the driver ("selenium" / "playwright")
  now,         \* the wall clock, in ticks
  dirs,        \* filesystem: the directories that exist
  files,       \* filesystem: the files that exist, <<path, capture id>>
  shots,       \* number of takeScreenshot calls made so far
  shot,        \* history: the most recent takeScreenshot call
  selenium,     \* lifecycle contract: the BaseSeleniumDriver instance
  playwright,   \* lifecycle contract: the PlaywrightDriver instance
  answered,     \* history: the most recent call given to both, and how each ended
  event,        \* lambda_handler: the fields of the event the handler branches on
  lpc,          \* position inside lambda_handler
  response,     \* the `response` object (statusCode, body.status, body.error, body.data)
  caught,       \* history: the error that left the try block ("none": nothing caught)
  thrownStack, \* the stack of that error ("none" while nothing was thrown)
  NODE_ENV,    \* process.env.NODE_ENV as lambda_handler reads it
  ldriver,      \* the `driver` local and the PlaywrightDriver it refers to
  trace,        \* history: the calls the handler has made, in order
  jsonConfig,   \* ConfigManager: this.jsonConfig, its entries in key order
  jsonLoaded,   \* whether _loadJsonConfig parsed a file (jsonConfigLowerCase exists)
  jsonConfigLowerCase, \* this.jsonConfigLowerCase (read only where it exists)
  setCall,      \* history: the most recent set(), the configuration before it, its outcome
  envConfig,    \* this.envConfig, the entries of process.env in key order
  caseSensitive,  \* this.options.caseSensitive
  got,          \* history: the most recent get(key, defaultValue) and what it returned
  consecutive_failures,  \* monitor mode: the counter of the check closure
  checks,       \* position of each check() invocation in flight
  streak,       \* history: failed checks since the last healthy check
  monitored,    \* history: the most recent result a check() acted on
  instance,     \* overlapping start(): the driver instance (class, isStarted, handles)
  starts,       \* position of each start() call: "idle", index of the awaited call, or how it ended
  engineOpen,   \* engine side: the resources that are open, <<id, part>>
  utilFn,       \* PlaywrightUtils helper being run: "smartClick" or "findElementWithFallback"
  utilArgs,     \* its arguments: the options read and the selectors list
  utilIndex,    \* the loop variable `i`
  utilPc,       \* position inside the helper: "loop" or "done"
  utilCalls,    \* history: the page calls and delays issued, in order
  utilResult    \* how the helper settled

driverVars == <<kind, options, env, isStarted, driver, browser, context, page,
                currentUrl, launched, openRes, last, hasQuit>>
retryVars == <<rfn, rargs, attempt, rpc, element, handles, events, routcome>>
selectorVars == <<selector, locator, findElementBy, findElementsBy, selectorInfo>>
waitVars == <<wdriver, woptions, wop, wtimeout, wstep, applied, elapsed, woutcome>>
captureVars == <<cdriver, now, dirs, files, shots, shot>>
pairVars == <<selenium, playwright, answered>>
lambdaVars == <<event, NODE_ENV, lpc, response, caught, thrownStack, ldriver, trace>>
configVars == <<jsonConfig, jsonLoaded, jsonConfigLowerCase, envConfig, caseSensitive, got, setCall>>
monitorVars == <<consecutive_failures, checks, streak, monitored>>
overlapVars == <<instance, starts, engineOpen>>
utilVars == <<utilFn, utilArgs, utilIndex, utilPc, utilCalls, utilResult>>
laterVars == <<pairVars, lambdaVars, configVars, monitorVars, overlapVars, utilVars>>
vars == <<driverVars, retryVars, selectorVars, waitVars, captureVars, laterVars>>

\* What the actions of one component leave alone.
exceptDriver == <<retryVars, selectorVars, waitVars, captureVars, laterVars>>
exceptRetry == <<driverVars, selectorVars, waitVars, captureVars, laterVars>>
exceptSelector == <<driverVars, retryVars, waitVars, captureVars, laterVars>>
exceptWait == <<driverVars, retryVars, selectorVars, captureVars, laterVars>>
exceptCapture == <<driverVars, retryVars, selectorVars, waitVars, laterVars>>
earlierVars == <<driverVars, retryVars, selectorVars, waitVars, captureVars>>
exceptPair == <<earlierVars, lambdaVars, configVars, monitorVars, overlapVars, utilVars>>
exceptLambda == <<earlierVars, pairVars, configVars, monitorVars, overlapVars, utilVars>>
exceptConfig == <<earlierVars, pairVars, lambdaVars, monitorVars, overlapVars, utilVars>>
exceptMonitor == <<earlierVars, pairVars, lambdaVars, configVars, overlapVars, utilVars>>
exceptOverlap == <<earlierVars, pairVars, lambdaVars, configVars, monitorVars, utilVars>>
exceptUtil == <<earlierVars, pairVars, lambdaVars, configVars, monitorVars, overlapVars>>

\* ------------------------------------------------------------------ bounds

\* Engine sessions one driver instance may launch in a behaviour.
MaxSessions == 2

\* Largest number of entries of the JSON configuration and of the environment.
MaxEntries == 2

\* Largest number of check() invocations in flight at once (the interval timer
\* does not wait for the previous check), and the cap on the failure counter.
MaxInFlight == 2

MaxFailuresCounted == 5

\* Number of start() calls made on one instance.
MaxStartCalls == 2

\* ------------------------------------------------------------------ sequences

Prefix(s, n) == SubSeq(s, 1, n)

Range(s) == {s[i] : i \in 1..Len(s)}

\* The calls of `steps` that were issued when the f-th one threw (f = 0: none threw).
Issued(steps, f) == IF f = 0 THEN steps ELSE Prefix(steps, f)

\* Step `name` of `steps` ran to completion when the f-th step threw.
Succeeded(steps, f, name) ==
  \E i \in 1..Len(steps) : steps[i] = name /\ (f = 0 \/ i < f)

\* ------------------------------------------------------------------ driver

SeleniumKinds == {"base", "chrome", "firefox", "edge"}

Kinds == SeleniumKinds \cup {"playwright"}

IsSelenium(k) == k \in SeleniumKinds

\* this.options.browser: the spellings a caller can pass; "opera" stands for any
\* value neither switch knows.
Browsers(k) ==
  IF k = "playwright"
    THEN {"chromium", "chrome", "Chrome", "firefox", "webkit", "safari", "opera"}
    ELSE IF k = "base" THEN {"chrome", "Firefox", "edge", "opera"}
    ELSE IF k = "chrome" THEN {"chrome"}
    ELSE IF k = "firefox" THEN {"firefox"}
    ELSE {"edge"}

\* String.prototype.toLowerCase on the spellings above.
ToLowerCase(b) ==
  CASE b = "Chrome" -> "chrome"
    [] b = "Firefox" -> "firefox"
    [] OTHER -> b

Urls == {"u1", "u2"}

NullUrl == "null"

InteractionOps ==
  {"navigateTo", "findElement", "findElements", "click", "sendKeys", "clearText",
   "getText", "waitForElement", "waitForVisible", "waitForClickable",
   "takeScreenshot", "executeScript", "startVideoRecording"}

NoLaunch == [engine |-> "none", exe |-> "none", sandboxArgs |-> FALSE,
             serverlessArgs |-> FALSE]

NoCall == [op |-> "none", arg |-> "-", outcome |-> "none", error |-> "none", calls |-> <<>>,
           warned |-> FALSE, launch |-> NoLaunch, carries |-> "none",
           pre |-> [isStarted |-> FALSE, driver |-> 0, browser |-> 0,
                    context |-> 0, page |-> 0, currentUrl |-> NullUrl,
                    openRes |-> {}, options |-> [browser |-> "none"]]]

Snapshot == [isStarted |-> isStarted, driver |-> driver, browser |-> browser,
             context |-> context, page |-> page, currentUrl |-> currentUrl,
             openRes |-> openRes, options |-> options]

\* _ensureStarted(): the condition under which it does NOT throw.
EnsureStartedSelenium(started, drv) == started /\ drv # 0

EnsureStartedPlaywright(started, pg) == started /\ pg # 0

EnsureStarted ==
  IF IsSelenium(kind) THEN EnsureStartedSelenium(isStarted, driver)
                      ELSE EnsureStartedPlaywright(isStarted, page)


\* ------------------------------------------------------------------ start()

\* The builder/engine selected by the switch on options.browser.toLowerCase().
SeleniumBrowserEngine(b) ==
  CASE ToLowerCase(b) = "chrome" -> "chrome"
    [] ToLowerCase(b) = "firefox" -> "firefox"
    [] ToLowerCase(b) = "edge" -> "MicrosoftEdge"
    [] OTHER -> "unsupported"

PlaywrightBrowserEngine(b) ==
  CASE ToLowerCase(b) \in {"chromium", "chrome"} -> "chromium"
    [] ToLowerCase(b) = "firefox" -> "firefox"
    [] ToLowerCase(b) \in {"webkit", "safari"} -> "webkit"
    [] OTHER -> "unsupported"

\* What BaseSeleniumDriver.start() awaits, in order, once the switch has accepted
\* the browser.
SeleniumStartSteps(o) ==
  (IF o.downloads THEN <<"fs.mkdir">> ELSE <<>>) \o <<"builder.build", "setTimeouts">>

\* BaseSeleniumDriver.start(); f is the step that throws (0: none).
BaseSeleniumStart(f) ==
  LET steps == SeleniumStartSteps(options)
      base == [isStarted |-> isStarted, driver |-> driver, launched |-> launched,
               openRes |-> openRes, outcome |-> "ok", error |-> "none",
               calls |-> <<>>, warned |-> FALSE, launch |-> NoLaunch]
  IN IF isStarted
       THEN [base EXCEPT !.outcome = "noop", !.warned = TRUE]
     ELSE IF SeleniumBrowserEngine(options.browser) = "unsupported"
       THEN [base EXCEPT !.outcome = "failed", !.error = "UnsupportedBrowser"]
     ELSE LET built == Succeeded(steps, f, "builder.build")
              id == launched + 1
          IN [base EXCEPT
                !.calls = Issued(steps, f),
                !.driver = IF built THEN id ELSE driver,
                !.launched = IF built THEN id ELSE launched,
                !.openRes = IF built THEN openRes \cup {<<id, "session">>}
                                     ELSE openRes,
                !.isStarted = (f = 0),
                !.outcome = IF f = 0 THEN "ok" ELSE "failed",
                !.error = IF f = 0 THEN "none" ELSE "StartupFailed",
                !.launch = [NoLaunch EXCEPT
                              !.engine = SeleniumBrowserEngine(options.browser)]]

\* _configureChromePerformance / _configureFirefoxPerformance /
\* _configureEdgePerformance: the engine calls, in order.
ConfigurePerformanceSteps(k, o) ==
  <<"executeScript">> \o
  (IF k \in {"chrome", "edge"} /\ ~o.headless THEN <<"window.setRect">> ELSE <<>>)

\* start() of the browser-specific subclasses: options are extended, super.start()
\* runs, and when this.isStarted holds afterwards the performance configuration
\* runs with its errors swallowed (g: the configuration step that throws).
SubclassStart(f, g) ==
  LET r == BaseSeleniumStart(f)
      o == [options EXCEPT !.specific = TRUE]
  IN IF r.outcome = "failed" \/ ~r.isStarted
       THEN r @@ [options |-> o]
       ELSE [r EXCEPT !.calls = r.calls \o Issued(ConfigurePerformanceSteps(kind, o), g)]
            @@ [options |-> o]

SeleniumStartResult(f, g) ==
  IF kind = "base" THEN BaseSeleniumStart(f) @@ [options |-> options]
                   ELSE SubclassStart(f, g)

StartSelenium ==
  /\ IsSelenium(kind)
  /\ isStarted \/ launched < MaxSessions
  /\ \E f \in 0..Len(SeleniumStartSteps(options)),
        g \in 0..Len(ConfigurePerformanceSteps(kind, options)) :
       LET r == SeleniumStartResult(f, g)
       IN /\ isStarted' = r.isStarted
          /\ driver' = r.driver
          /\ launched' = r.launched
          /\ openRes' = r.openRes
          /\ options' = r.options
          /\ last' = [op |-> "start", arg |-> "-", outcome |-> r.outcome, error |-> r.error,
                      calls |-> r.calls, warned |-> r.warned, launch |-> r.launch,
                      carries |-> "none", pre |-> Snapshot]
  /\ UNCHANGED <<kind, env, browser, context, page, currentUrl, hasQuit>>
  /\ UNCHANGED exceptDriver

\* Mutant of PlaywrightBinaryDecision: the serverless binary is used in
\* production only.
PlaywrightBinaryDecisionByNodeEnv(e, o) ==
  LET chromiumOption == o.browser \in {"chromium", "chrome"}
      isLambda == (e.fnName \/ e.execEnv) /\ e.nodeEnv = "production"
  IN IF isLambda
       THEN IF e.serverlessOk
              THEN [error |-> "none", exe |-> "serverless",
                    serverlessArgs |-> TRUE, sandboxArgs |-> chromiumOption]
              ELSE [error |-> "ServerlessUnavailable", exe |-> "none",
                    serverlessArgs |-> FALSE, sandboxArgs |-> FALSE]
       ELSE [error |-> "none",
             exe |-> IF e.customExe /\ chromiumOption THEN "custom" ELSE "default",
             serverlessArgs |-> FALSE, sandboxArgs |-> chromiumOption]

\* Mutant of PlaywrightBinaryDecision: an unresolvable serverless binary falls
\* back to the default local installation.
PlaywrightBinaryDecisionFallsBack(e, o) ==
  LET chromiumOption == o.browser \in {"chromium", "chrome"}
      isLambda == e.fnName \/ e.execEnv
  IN [error |-> "none",
      exe |-> IF isLambda /\ e.serverlessOk THEN "serverless"
              ELSE IF ~isLambda /\ e.customExe /\ chromiumOption THEN "custom"
              ELSE "default",
      serverlessArgs |-> isLambda /\ e.serverlessOk,
      sandboxArgs |-> chromiumOption]

\* Lines 96-135 of PlaywrightDriver.start(): which executable and which argument
\* families the launch gets. The browser option is compared as written (no
\* toLowerCase) at lines 117 and 127.
PlaywrightBinaryDecision(e, o) ==
  LET chromiumOption == o.browser \in {"chromium", "chrome"}
      isLambda == e.fnName \/ e.execEnv
  IN IF isLambda
       THEN IF e.serverlessOk
              THEN [error |-> "none", exe |-> "serverless",
                    serverlessArgs |-> TRUE, sandboxArgs |-> chromiumOption]
              ELSE [error |-> "ServerlessUnavailable", exe |-> "none",
                    serverlessArgs |-> FALSE, sandboxArgs |-> FALSE]
       ELSE [error |-> "none",
             exe |-> IF e.customExe /\ chromiumOption THEN "custom" ELSE "default",
             serverlessArgs |-> FALSE, sandboxArgs |-> chromiumOption]

\* What PlaywrightDriver.start() calls from the launch on, in order.
PlaywrightStartSteps(o) ==
  <<"launch">>
  \o (IF o.recordVideo THEN <<"fs.mkdir">> ELSE <<>>)
  \o (IF o.downloads THEN <<"fs.mkdir">> ELSE <<>>)
  \o <<"newContext", "setDefaultTimeout", "setDefaultNavigationTimeout", "newPage">>
  \o (IF o.disableImages THEN <<"page.route">> ELSE <<>>)
  \o (IF o.disableJavaScript THEN <<"context.addInitScript">> ELSE <<>>)

\* PlaywrightDriver.start(); f is the step that throws (0: none).
PlaywrightStart(f) ==
  LET steps == PlaywrightStartSteps(options)
      bin == PlaywrightBinaryDecision(env, options)
      engine == PlaywrightBrowserEngine(options.browser)
      base == [isStarted |-> isStarted, browser |-> browser, context |-> context,
               page |-> page, launched |-> launched, openRes |-> openRes,
               outcome |-> "ok", error |-> "none", calls |-> <<>>,
               warned |-> FALSE, launch |-> NoLaunch]
  IN IF isStarted
       THEN [base EXCEPT !.outcome = "noop", !.warned = TRUE]
     ELSE IF engine = "unsupported"
       THEN [base EXCEPT !.outcome = "failed", !.error = "UnsupportedBrowser"]
     ELSE IF bin.error # "none"
       THEN [base EXCEPT !.outcome = "failed", !.error = bin.error]
     ELSE LET id == launched + 1
              b == Succeeded(steps, f, "launch")
              c == Succeeded(steps, f, "newContext")
              p == Succeeded(steps, f, "newPage")
          IN [base EXCEPT
                !.calls = Issued(steps, f),
                !.browser = IF b THEN id ELSE browser,
                !.context = IF c THEN id ELSE context,
                !.page = IF p THEN id ELSE page,
                !.launched = IF b THEN id ELSE launched,
                !.openRes = openRes
                            \cup (IF b THEN {<<id, "browser">>} ELSE {})
                            \cup (IF c THEN {<<id, "context">>} ELSE {})
                            \cup (IF p THEN {<<id, "page">>} ELSE {}),
                !.isStarted = (f = 0),
                !.outcome = IF f = 0 THEN "ok" ELSE "failed",
                !.error = IF f = 0 THEN "none" ELSE "StartupFailed",
                !.launch = [engine |-> engine, exe |-> bin.exe,
                            sandboxArgs |-> bin.sandboxArgs,
                            serverlessArgs |-> bin.serverlessArgs]]

StartPlaywright ==
  /\ kind = "playwright"
  /\ isStarted \/ launched < MaxSessions
  /\ \E f \in 0..Len(PlaywrightStartSteps(options)) :
       LET r == PlaywrightStart(f)
       IN /\ isStarted' = r.isStarted
          /\ browser' = r.browser
          /\ context' = r.context
          /\ page' = r.page
          /\ launched' = r.launched
          /\ openRes' = r.openRes
          /\ last' = [op |-> "start", arg |-> "-", outcome |-> r.outcome,
                      error |-> r.error, calls |-> r.calls, warned |-> r.warned,
                      launch |-> r.launch, carries |-> "none", pre |-> Snapshot]
  /\ UNCHANGED <<kind, options, env, driver, currentUrl, hasQuit>>
  /\ UNCHANGED exceptDriver

\* ------------------------------------------------------------------ quit()

\* BaseSeleniumDriver.quit(); fails: driver.quit() throws.
QuitSelenium ==
  /\ IsSelenium(kind)
  /\ \E fails \in BOOLEAN :
       IF ~isStarted \/ driver = 0
         THEN /\ last' = [NoCall EXCEPT !.op = "quit", !.outcome = "noop",
                                        !.warned = TRUE, !.pre = Snapshot]
              /\ UNCHANGED <<isStarted, driver, currentUrl, openRes, hasQuit>>
       ELSE IF fails
         THEN /\ last' = [NoCall EXCEPT !.op = "quit", !.outcome = "failed",
                                        !.error = "QuitFailed",
                                        !.calls = <<"driver.quit">>,
                                        !.pre = Snapshot]
              /\ UNCHANGED <<isStarted, driver, currentUrl, openRes, hasQuit>>
         ELSE /\ last' = [NoCall EXCEPT !.op = "quit", !.outcome = "ok",
                                        !.calls = <<"driver.quit">>,
                                        !.pre = Snapshot]
              /\ openRes' = openRes \ {<<driver, "session">>}
              /\ driver' = 0
              /\ isStarted' = FALSE
              /\ currentUrl' = NullUrl
              /\ hasQuit' = TRUE
  /\ UNCHANGED <<kind, options, env, browser, context, page, launched>>
  /\ UNCHANGED exceptDriver

\* Mutant of PlaywrightQuitOrder: the browser process is closed before the context.
PlaywrightQuitOrderBrowserFirst == <<"page", "browser", "context">>

\* The order in which PlaywrightDriver.quit() releases its handles (lines 219-232).
PlaywrightQuitOrder == <<"page", "context", "browser">>

PlaywrightHandle(part) ==
  CASE part = "page" -> page
    [] part = "context" -> context
    [] part = "browser" -> browser

\* The close calls quit() makes: one per handle that is not null, in order.
PlaywrightQuitSteps ==
  LET Live(part) == PlaywrightHandle(part) # 0
  IN SelectSeq(PlaywrightQuitOrder, Live)

\* PlaywrightDriver.quit(); f is the close call that throws (0: none).
QuitPlaywright ==
  /\ kind = "playwright"
  /\ IF ~isStarted
       THEN /\ last' = [NoCall EXCEPT !.op = "quit", !.outcome = "noop",
                                      !.warned = TRUE, !.pre = Snapshot]
            /\ UNCHANGED <<isStarted, browser, context, page, currentUrl, openRes,
                           hasQuit>>
       ELSE \E f \in 0..Len(PlaywrightQuitSteps) :
              LET steps == PlaywrightQuitSteps
                  Closed(part) == Succeeded(steps, f, part)
                  After(part) == IF Closed(part) THEN 0 ELSE PlaywrightHandle(part)
              IN /\ page' = After("page")
                 /\ context' = After("context")
                 /\ browser' = After("browser")
                 /\ openRes' = openRes \ {<<PlaywrightHandle(part), part>> :
                                            part \in {q \in Range(steps) : Closed(q)}}
                 /\ isStarted' = (f # 0)
                 /\ currentUrl' = IF f = 0 THEN NullUrl ELSE currentUrl
                 /\ hasQuit' = (hasQuit \/ f = 0)
                 /\ last' = [NoCall EXCEPT
                               !.op = "quit",
                               !.outcome = IF f = 0 THEN "ok" ELSE "failed",
                               !.error = IF f = 0 THEN "none" ELSE "QuitFailed",
                               !.calls = [i \in 1..Len(Issued(steps, f)) |->
                                            Issued(steps, f)[i] \o ".close"],
                               !.pre = Snapshot]
  /\ UNCHANGED <<kind, options, env, driver, launched>>
  /\ UNCHANGED exceptDriver

\* ------------------------------------------------------------------ operations

\* Mutant of SeleniumScreenshotSteps: the file is written before the directory
\* is made.
SeleniumScreenshotStepsWriteFirst(withFile) ==
  IF withFile THEN <<"takeScreenshot", "fs.writeFile", "fs.mkdir">>
              ELSE <<"takeScreenshot">>

\* BaseSeleniumDriver.takeScreenshot: the capture, then with a filename the
\* mkdir of createScreenshotsDirectory and the writeFile.
SeleniumScreenshotSteps(withFile) ==
  IF withFile THEN <<"takeScreenshot", "fs.mkdir", "fs.writeFile">>
              ELSE <<"takeScreenshot">>

\* Mutant of SeleniumNavigateSteps: the navigation is issued a second time.
SeleniumNavigateStepsTwice == <<"get", "get", "getCurrentUrl", "getTitle">>

\* BaseSeleniumDriver.navigateTo: driver.get(url), then the two reads for the
\* returned record.
SeleniumNavigateSteps == <<"get", "getCurrentUrl", "getTitle">>

\* What each BaseSeleniumDriver operation awaits inside its try block, in order.
\* withFile: takeScreenshot was given a filename.
SeleniumOpSteps(op, withFile) ==
  CASE op = "navigateTo" -> SeleniumNavigateSteps
    [] op = "findElement" -> <<"wait.elementLocated">>
    [] op = "findElements" -> <<"findElements">>
    [] op = "click" ->
         <<"wait.elementLocated", "wait.elementIsEnabled", "element.click">>
    [] op = "sendKeys" ->
         <<"wait.elementLocated", "wait.elementIsEnabled", "element.sendKeys">>
    [] op = "clearText" -> <<"wait.elementLocated", "element.clear">>
    [] op = "getText" -> <<"wait.elementLocated", "element.getText">>
    [] op = "waitForElement" -> <<"wait.elementLocated">>
    [] op = "waitForVisible" -> <<"wait.elementLocated", "wait.elementIsVisible">>
    [] op = "waitForClickable" -> <<"wait.elementLocated", "wait.elementIsEnabled">>
    [] op = "takeScreenshot" -> SeleniumScreenshotSteps(withFile)
    [] op = "executeScript" -> <<"executeScript">>
    [] op = "startVideoRecording" -> <<"fs.mkdir">>

\* The same for PlaywrightDriver. page.screenshot({path}) writes the file itself.
PlaywrightOpSteps(op, withFile) ==
  CASE op = "navigateTo" -> <<"page.goto", "page.title", "response.ok">>
    [] op = "findElement" -> <<"page.waitForSelector">>
    [] op = "findElements" -> <<"page.locator.all">>
    [] op = "click" -> <<"page.click">>
    [] op = "sendKeys" -> <<"page.fill">>
    [] op = "clearText" -> <<"page.fill">>
    [] op = "getText" -> <<"page.textContent">>
    [] op = "waitForElement" -> <<"page.waitForSelector">>
    [] op = "waitForVisible" -> <<"page.waitForSelector">>
    [] op = "waitForClickable" -> <<"page.waitForSelector", "page.isEnabled">>
    [] op = "takeScreenshot" ->
         IF withFile THEN <<"fs.mkdir", "page.screenshot(path)">>
                     ELSE <<"page.screenshot">>
    [] op = "executeScript" -> <<"page.evaluate">>
    [] op = "startVideoRecording" -> <<>>

OpSteps(k, op, withFile) ==
  IF IsSelenium(k) THEN SeleniumOpSteps(op, withFile)
                   ELSE PlaywrightOpSteps(op, withFile)

\* Whether the operation begins with this._ensureStarted().
\* BaseSeleniumDriver.startVideoRecording (lines 541-550) does not.
CallsEnsureStarted(k, op) == ~(IsSelenium(k) /\ op = "startVideoRecording")

\* Mutant of CatchReturnsEmpty: the catch block of findElements rethrows.
CatchRethrowsAlways(op) == FALSE

\* Whether the operation's catch block returns an empty result instead of
\* throwing: findElements only (`return []`).
CatchReturnsEmpty(op) == op = "findElements"

\* Mutant of StateAfterOp: a failed operation tears the session flag down.
StateAfterOpDropsSession(k, op, url, steps, f) ==
  [isStarted |-> isStarted /\ f = 0,
   currentUrl |-> IF op = "navigateTo" /\
                     Succeeded(steps, f, IF IsSelenium(k) THEN "get" ELSE "page.goto")
                    THEN url ELSE currentUrl]

\* The state an operation leaves when the f-th awaited call threw: the handlers
\* assign nothing but currentUrl, which navigateTo sets once the engine
\* navigation has returned.
StateAfterOp(k, op, url, steps, f) ==
  [isStarted |-> isStarted,
   currentUrl |-> IF op = "navigateTo" /\
                     Succeeded(steps, f, IF IsSelenium(k) THEN "get" ELSE "page.goto")
                    THEN url ELSE currentUrl]

\* One interaction operation of either driver; f is the awaited call that throws
\* (0: none). Returns how it ended, what it issued and the state it leaves.
RunInteraction(k, op, url, withFile, f) ==
  LET steps == OpSteps(k, op, withFile)
      same == [isStarted |-> isStarted, currentUrl |-> currentUrl]
  IN IF CallsEnsureStarted(k, op) /\ ~EnsureStarted
       THEN [outcome |-> "failed", error |-> "NotStarted", calls |-> <<>>,
             state |-> same]
     ELSE IF op = "startVideoRecording"
       THEN IF IsSelenium(k)
              THEN [outcome |-> "failed",
                    error |-> IF f = 0 THEN "NotImplemented" ELSE "OpFailed",
                    calls |-> Issued(steps, f), state |-> same]
              ELSE [outcome |-> IF options.recordVideo THEN "ok" ELSE "failed",
                    error |-> IF options.recordVideo THEN "none"
                                                     ELSE "VideoNotEnabled",
                    calls |-> <<>>, state |-> same]
     ELSE IF f = 0
       THEN [outcome |-> "ok", error |-> "none", calls |-> steps,
             state |-> StateAfterOp(k, op, url, steps, f)]
     ELSE IF CatchReturnsEmpty(op)
       THEN [outcome |-> "empty", error |-> "none", calls |-> Issued(steps, f),
             state |-> StateAfterOp(k, op, url, steps, f)]
     ELSE [outcome |-> "failed", error |-> "OpFailed", calls |-> Issued(steps, f),
           state |-> StateAfterOp(k, op, url, steps, f)]

\* The argument the message of the error thrown by the operation's catch block
\* interpolates (next to error.message): the URL in navigateTo, the selector in
\* the element operations, none in takeScreenshot and executeScript.
MessageCarries(op) ==
  CASE op = "navigateTo" -> "url"
    [] op \in {"findElement", "click", "sendKeys", "clearText", "getText",
               "waitForElement", "waitForVisible", "waitForClickable"} -> "selector"
    [] OTHER -> "none"

OpArg(op, url, withFile) ==
  CASE op = "navigateTo" -> url
    [] op = "takeScreenshot" -> IF withFile THEN "file" ELSE "nofile"
    [] OTHER -> "-"

\* The arguments that matter to the model: the URL of navigateTo, whether
\* takeScreenshot got a filename.
OpInputs(op) ==
  CASE op = "navigateTo" -> Urls \X {FALSE}
    [] op = "takeScreenshot" -> {"u1"} \X BOOLEAN
    [] OTHER -> {<<"u1", FALSE>>}

Interact ==
  /\ \E op \in InteractionOps :
       \E in \in OpInputs(op) :
       \E f \in 0..Len(OpSteps(kind, op, in[2])) :
          LET url == in[1]
              withFile == in[2]
          IN

          LET r == RunInteraction(kind, op, url, withFile, f)
          IN /\ isStarted' = r.state.isStarted
             /\ currentUrl' = r.state.currentUrl
             /\ last' = [NoCall EXCEPT !.op = op, !.arg = OpArg(op, url, withFile),
                                       !.outcome = r.outcome, !.error = r.error,
                                       !.calls = r.calls,
                                       !.carries = IF r.error = "OpFailed"
                                                     THEN MessageCarries(op)
                                                     ELSE "none",
                                       !.pre = Snapshot]
  /\ UNCHANGED <<kind, options, env, driver, browser, context, page, launched,
                 openRes, hasQuit>>
  /\ UNCHANGED exceptDriver

\* ------------------------------------------------------------------ construction

\* The option defaults of the constructors (lines 24-40 / 24-42), as far as the
\* handlers read them; downloads: options.downloadsPath is set.
DefaultOptions(k) ==
  [browser |-> IF k = "playwright" THEN "chromium"
               ELSE IF k = "base" THEN "chrome" ELSE k,
   headless |-> TRUE, recordVideo |-> FALSE, disableImages |-> FALSE,
   disableJavaScript |-> FALSE, downloads |-> TRUE, specific |-> FALSE]

\* Option records the instances are constructed with: the defaults under every
\* browser spelling, and each switch that adds or removes an awaited call.
OptionsOf(k) ==
  {[DefaultOptions(k) EXCEPT !.browser = b] : b \in Browsers(k)}
  \cup {[DefaultOptions(k) EXCEPT !.downloads = FALSE]}
  \cup (IF k = "playwright"
          THEN {[DefaultOptions(k) EXCEPT !.recordVideo = TRUE],
                [DefaultOptions(k) EXCEPT !.disableImages = TRUE,
                                          !.disableJavaScript = TRUE]}
          ELSE {[DefaultOptions(k) EXCEPT !.headless = FALSE]})

LocalEnvironment ==
  [fnName |-> FALSE, execEnv |-> FALSE, serverlessOk |-> FALSE, customExe |-> FALSE,
   nodeEnv |-> "production"]

\* Values of NODE_ENV.
NodeEnvs == {"production", "development"}

\* process.env as start() finds it: the two sandbox markers
\* (AWS_LAMBDA_FUNCTION_NAME, AWS_EXECUTION_ENV), whether @sparticuz/chromium
\* resolves, PLAYWRIGHT_CHROMIUM_EXECUTABLE_PATH, and NODE_ENV.
Environments ==
  {LocalEnvironment, [LocalEnvironment EXCEPT !.customExe = TRUE]}
  \cup {[LocalEnvironment EXCEPT !.fnName = m[1], !.execEnv = m[2],
                                 !.serverlessOk = ok] :
          m \in {<<TRUE, FALSE>>, <<FALSE, TRUE>>}, ok \in BOOLEAN}
  \cup {[LocalEnvironment EXCEPT !.fnName = m[1], !.serverlessOk = m[2],
                                 !.nodeEnv = "development"] :
          m \in {<<FALSE, FALSE>>, <<TRUE, TRUE>>, <<TRUE, FALSE>>}}

\* The configurations a behaviour starts from. Only PlaywrightDriver.start()
\* reads the environment.
\* The environments every browser spelling is started in.
BrowserEnvironments ==
  {LocalEnvironment, [LocalEnvironment EXCEPT !.customExe = TRUE],
   [LocalEnvironment EXCEPT !.execEnv = TRUE],
   [LocalEnvironment EXCEPT !.fnName = TRUE, !.serverlessOk = TRUE]}

Configurations(k) ==
  IF k = "playwright"
    THEN {<<o, e>> \in OptionsOf(k) \X Environments :
            \/ o = DefaultOptions(k)
            \/ /\ o = [DefaultOptions(k) EXCEPT !.browser = o.browser]
               /\ e \in BrowserEnvironments
            \/ e = LocalEnvironment}
    ELSE OptionsOf(k) \X {LocalEnvironment}

RetryIdle ==
  /\ rfn = "none"
  /\ rargs = [maxRetries |-> 0, retryDelay |-> 0, clearFirst |-> FALSE]
  /\ attempt = 0
  /\ rpc = "idle"
  /\ element = 0
  /\ handles = 0
  /\ events = <<>>
  /\ routcome = "none"

NoLocator == [by |-> "none", value |-> <<>>]

NoSelectorInfo == [type |-> "none", selector |-> <<>>, strategy |-> "none"]

SelectorIdle ==
  /\ selector = <<>>
  /\ locator = NoLocator
  /\ findElementBy = NoLocator
  /\ findElementsBy = NoLocator
  /\ selectorInfo = NoSelectorInfo

\* No timed operation is running.
WaitIdle ==
  /\ wdriver = "none"
  /\ woptions = [timeout |-> 0, implicitWait |-> 0]
  /\ wop = "none"
  /\ wtimeout = [supplied |-> FALSE, ms |-> 0]
  /\ wstep = 0
  /\ applied = <<>>
  /\ elapsed = 0
  /\ woutcome = "none"

NoFile == [path |-> "", id |-> 0, second |-> 0, filename |-> "", directory |-> "",
           stamped |-> FALSE]

NoShot == [filename |-> "none", includeTimestamp |-> FALSE, directory |-> "none",
           calls |-> <<>>, outcome |-> "none", error |-> "none",
           returned |-> "none", path |-> "", id |-> 0, second |-> 0,
           replaced |-> NoFile, preDirs |-> {}, preFiles |-> {}]

\* No screenshot has been asked for.
CaptureIdle ==
  /\ cdriver = "none"
  /\ now = 0
  /\ dirs = {}
  /\ files = {}
  /\ shots = 0
  /\ shot = NoShot

DriverIdle ==
  /\ kind = "none"
  /\ options = [browser |-> "none"]
  /\ env = [fnName |-> FALSE]
  /\ isStarted = FALSE
  /\ driver = 0
  /\ browser = 0
  /\ context = 0
  /\ page = 0
  /\ currentUrl = NullUrl
  /\ launched = 0
  /\ openRes = {}
  /\ last = NoCall
  /\ hasQuit = FALSE

PairIdle ==
  /\ selenium = [isStarted |-> FALSE, driver |-> 0, currentUrl |-> NullUrl]
  /\ playwright = [isStarted |-> FALSE, browser |-> 0, context |-> 0, page |-> 0,
                   currentUrl |-> NullUrl]
  /\ answered = [op |-> "none", answer |-> "none", selenium |-> "none",
                 playwright |-> "none"]

LambdaIdle ==
  /\ event = [heading |-> FALSE]
  /\ lpc = "idle"
  /\ response = [statusCode |-> 0]
  /\ caught = "none"
  /\ thrownStack = "none"
  /\ NODE_ENV = "unset"
  /\ ldriver = [created |-> FALSE]
  /\ trace = <<>>

ConfigIdle ==
  /\ jsonConfig = <<>>
  /\ jsonLoaded = FALSE
  /\ jsonConfigLowerCase = <<>>
  /\ envConfig = <<>>
  /\ caseSensitive = FALSE
  /\ got = [key |-> "none", value |-> "none"]
  /\ setCall = [key |-> "none", value |-> "none", outcome |-> "none", sets |-> 0,
                pre |-> <<>>]

MonitorIdle ==
  /\ consecutive_failures = 0
  /\ checks = <<>>
  /\ streak = 0
  /\ monitored = [kind |-> "none", restart |-> FALSE]

OverlapIdle ==
  /\ instance = [kind |-> "none"]
  /\ starts = <<>>
  /\ engineOpen = {}

UtilIdle ==
  /\ utilFn = "none"
  /\ utilArgs = [retries |-> [supplied |-> FALSE, v |-> 0],
                 retryDelay |-> [supplied |-> FALSE, v |-> 0],
                 timeout |-> [supplied |-> FALSE, v |-> 0],
                 selectors |-> <<>>, state |-> "visible"]
  /\ utilIndex = 0
  /\ utilPc = "done"
  /\ utilCalls = <<>>
  /\ utilResult = [kind |-> "pending", attempts |-> 0, error |-> 0,
                   selector |-> "", attemptIndex |-> 0]

LaterIdle == PairIdle /\ LambdaIdle /\ ConfigIdle /\ MonitorIdle /\ OverlapIdle /\ UtilIdle

EarlierIdle == DriverIdle /\ RetryIdle /\ SelectorIdle /\ WaitIdle /\ CaptureIdle

\* The state the constructors leave (lines 22-55 of either driver).
DriverInit ==
  /\ kind \in Kinds
  /\ \E c \in Configurations(kind) : options = c[1] /\ env = c[2]
  /\ isStarted = FALSE
  /\ driver = 0
  /\ browser = 0
  /\ context = 0
  /\ page = 0
  /\ currentUrl = NullUrl
  /\ launched = 0
  /\ openRes = {}
  /\ last = NoCall
  /\ hasQuit = FALSE

Init == DriverInit /\ RetryIdle /\ SelectorIdle /\ WaitIdle /\ CaptureIdle /\ LaterIdle

Next ==
  \/ StartSelenium
  \/ StartPlaywright
  \/ QuitSelenium
  \/ QuitPlaywright
  \/ Interact

Spec == Init /\ [][Next]_vars

\* ------------------------------------------------------------------ retry helpers
\* SeleniumUtils.safeClick and SeleniumUtils.safeSendKeys, one awaited call per step.

\* Largest maxRetries argument the helpers are called with.
MaxRetriesArg == 3

DefaultRetryDelay == 1000

SendKeysRetryDelay == 1000

ScrollSettleMs == 500

ClearSettleMs == 100

RetryDelays == {DefaultRetryDelay, 250}

Event(e, ok, ms) ==
  [e |-> e, attempt |-> attempt, handle |-> element, ok |-> ok, ms |-> ms]

\* Mutant of AfterStep: the scroll is skipped and a failed locate is not noticed.
AfterStepSkipsScroll(fn, pc, ok, clearFirst) ==
  CASE pc = "locate" -> IF fn = "getElementText" THEN "getText"
                        ELSE IF fn = "safeClick" THEN "settle"
                        ELSE IF clearFirst THEN "clear" ELSE "sendKeys"
    [] pc = "scroll" -> IF ok THEN "settle" ELSE "catch"
    [] pc = "settle" -> "click"
    [] pc = "click" -> IF ok THEN "return" ELSE "catch"
    [] pc = "clear" -> IF ok THEN "sendKeys" ELSE "catch"
    [] pc = "sendKeys" -> IF ok THEN "verify" ELSE "catch"
    [] pc = "verify" -> IF ok THEN "return" ELSE "catch"

\* Where control goes after the step at pc, inside one iteration's try block:
\* the next statement when the awaited call returned, the catch block when it threw.
AfterStep(fn, pc, ok, clearFirst) ==
  CASE pc = "locate" -> IF ~ok THEN "catch"
                        ELSE IF fn = "getElementText" THEN "getText" ELSE "scroll"
    [] pc = "scroll" -> IF ~ok THEN "catch"
                        ELSE IF fn = "safeClick" THEN "settle"
                        ELSE IF clearFirst THEN "clear" ELSE "sendKeys"
    [] pc = "settle" -> "click"
    [] pc = "click" -> IF ok THEN "return" ELSE "catch"
    [] pc = "clear" -> IF ok THEN "sendKeys" ELSE "catch"
    [] pc = "sendKeys" -> IF ok THEN "verify" ELSE "catch"
    [] pc = "verify" -> IF ok THEN "return" ELSE "catch"

\* The for-loop test `attempt <= maxRetries`.
LoopContinues(a, maxRetries) == a <= maxRetries

\* The catch block's test `attempt < maxRetries`: wait and go round again.
CatchRetries(a, maxRetries) == a < maxRetries

\* The delay the catch block waits: the retryDelay argument in safeClick, a
\* literal in safeSendKeys.
CatchDelay(fn, args) ==
  IF fn = "safeClick" THEN args.retryDelay ELSE SendKeysRetryDelay

Step(pc, ok, ev) ==
  /\ rpc = pc
  /\ events' = Append(events, ev)
  /\ LET to == AfterStep(rfn, pc, ok, rargs.clearFirst)
     IN /\ rpc' = IF to = "return" THEN "done" ELSE to
        /\ routcome' = IF to = "return" THEN "true" ELSE routcome

\* for (let attempt = 1; attempt <= maxRetries; attempt++): the test; falling
\* out of the loop reaches `return false`.
RetryLoop ==
  /\ rpc = "loop"
  /\ IF LoopContinues(attempt, rargs.maxRetries)
       THEN rpc' = "locate" /\ routcome' = routcome
       ELSE rpc' = "done" /\ routcome' = "false"
  /\ UNCHANGED <<rfn, rargs, attempt, element, handles, events>>
  /\ UNCHANGED exceptRetry

\* smartWaitForElement(driver, selector, 5000, 'clickable') in the retry
\* helpers, smartWaitForElement(driver, selector, 5000) in getElementText: a new
\* element handle, or a throw.
RetryLocate ==
  /\ rpc = "locate"
  /\ \E ok \in BOOLEAN :
       /\ element' = IF ok THEN handles + 1 ELSE 0
       /\ handles' = IF ok THEN handles + 1 ELSE handles
       /\ events' = Append(events, [Event("locate", ok, 0) EXCEPT !.handle = element'])
       /\ rpc' = AfterStep(rfn, "locate", ok, rargs.clearFirst)
  /\ UNCHANGED <<rfn, rargs, attempt, routcome>>
  /\ UNCHANGED exceptRetry

\* driver.executeScript('arguments[0].scrollIntoView({block: "center"});', element)
RetryScroll ==
  /\ \E ok \in BOOLEAN : Step("scroll", ok, Event("scroll", ok, 0))
  /\ UNCHANGED <<rfn, rargs, attempt, element, handles>>
  /\ UNCHANGED exceptRetry

\* safeClick: this.wait(500) after the scroll.
RetrySettle ==
  /\ Step("settle", TRUE, Event("settle", TRUE, ScrollSettleMs))
  /\ UNCHANGED <<rfn, rargs, attempt, element, handles>>
  /\ UNCHANGED exceptRetry

\* safeClick: element.click()
RetryClick ==
  /\ \E ok \in BOOLEAN : Step("click", ok, Event("click", ok, 0))
  /\ UNCHANGED <<rfn, rargs, attempt, element, handles>>
  /\ UNCHANGED exceptRetry

\* safeSendKeys: element.clear() and, when it returned, this.wait(100)
RetryClear ==
  /\ \E ok \in BOOLEAN :
       Step("clear", ok, Event("clear", ok, IF ok THEN ClearSettleMs ELSE 0))
  /\ UNCHANGED <<rfn, rargs, attempt, element, handles>>
  /\ UNCHANGED exceptRetry

\* safeSendKeys: element.sendKeys(text)
RetrySendKeys ==
  /\ \E ok \in BOOLEAN : Step("sendKeys", ok, Event("sendKeys", ok, 0))
  /\ UNCHANGED <<rfn, rargs, attempt, element, handles>>
  /\ UNCHANGED exceptRetry

\* safeSendKeys: getAttribute('value') and the check `actualValue &&
\* !actualValue.includes(text)`; ok is FALSE when either throws.
RetryVerify ==
  /\ \E ok \in BOOLEAN : Step("verify", ok, Event("verify", ok, 0))
  /\ UNCHANGED <<rfn, rargs, attempt, element, handles>>
  /\ UNCHANGED exceptRetry

\* The catch block, and the loop's attempt++ when it does not throw.
RetryCatch ==
  /\ rpc = "catch"
  /\ rfn \in {"safeClick", "safeSendKeys"}
  /\ IF CatchRetries(attempt, rargs.maxRetries)
       THEN /\ events' = Append(events, Event("retryWait", TRUE, CatchDelay(rfn, rargs)))
            /\ attempt' = attempt + 1
            /\ rpc' = "loop"
            /\ routcome' = routcome
       ELSE /\ events' = Append(events, Event("reject", FALSE, rargs.maxRetries))
            /\ attempt' = attempt
            /\ rpc' = "done"
            /\ routcome' = "rejected"
  /\ element' = 0
  /\ UNCHANGED <<rfn, rargs, handles>>
  /\ UNCHANGED exceptRetry

\* What an extraction call of getElementText can give: a non-blank text, a blank
\* one (null, '' or whitespace), or a throw.
TextResults == {"text", "blank", "throw"}

\* How getElementText ends when its catch block runs: `return ''`.
TextCatchResult == "emptyString"

\* Where getElementText goes after an extraction call: return the text, fall
\* back to the next method, or the catch block.
AfterExtract(pc, r) ==
  CASE r = "throw" -> "catch"
    [] r = "text" -> "return"
    [] pc = "getText" -> "innerHTML"
    [] pc = "innerHTML" -> "textContent"
    [] OTHER -> "return"

Extract(pc, r) ==
  /\ rpc = pc
  /\ events' = Append(events, Event(pc, r # "throw", 0))
  /\ LET to == AfterExtract(pc, r)
     IN /\ rpc' = IF to = "return" THEN "done" ELSE to
        /\ routcome' = IF to # "return" THEN routcome
                       ELSE IF r = "text" THEN "text" ELSE "emptyString"

\* getElementText: element.getText()
TextGetText ==
  /\ rfn = "getElementText"
  /\ \E r \in TextResults : Extract("getText", r)
  /\ UNCHANGED <<rfn, rargs, attempt, element, handles>>
  /\ UNCHANGED exceptRetry

\* getElementText: element.getAttribute('innerHTML')
TextInnerHTML ==
  /\ rfn = "getElementText"
  /\ \E r \in TextResults : Extract("innerHTML", r)
  /\ UNCHANGED <<rfn, rargs, attempt, element, handles>>
  /\ UNCHANGED exceptRetry

\* getElementText: driver.executeScript('return arguments[0].textContent;', element)
TextContent ==
  /\ rfn = "getElementText"
  /\ \E r \in TextResults : Extract("textContent", r)
  /\ UNCHANGED <<rfn, rargs, attempt, element, handles>>
  /\ UNCHANGED exceptRetry

\* getElementText: the catch block.
TextCatch ==
  /\ rfn = "getElementText"
  /\ rpc = "catch"
  /\ events' = Append(events, Event("caught", FALSE, 0))
  /\ rpc' = "done"
  /\ routcome' = TextCatchResult
  /\ element' = 0
  /\ UNCHANGED <<rfn, rargs, attempt, handles>>
  /\ UNCHANGED exceptRetry

\* A call of one of the helpers with its arguments.
RetryInit ==
  /\ rfn \in {"safeClick", "safeSendKeys", "getElementText"}
  /\ \E m \in 0..MaxRetriesArg, d \in RetryDelays, c \in BOOLEAN :
       /\ rfn = "safeClick" => c
       /\ rfn = "safeSendKeys" => d = DefaultRetryDelay
       /\ rfn = "getElementText" => (m = 1 /\ d = DefaultRetryDelay /\ c)
       /\ rargs = [maxRetries |-> m, retryDelay |-> d, clearFirst |-> c]
  /\ attempt = 1
  /\ rpc = IF rfn = "getElementText" THEN "locate" ELSE "loop"
  /\ element = 0
  /\ handles = 0
  /\ events = <<>>
  /\ routcome = "running"

InitRetry == RetryInit /\ DriverIdle /\ SelectorIdle /\ WaitIdle /\ CaptureIdle /\ LaterIdle

NextRetry ==
  \/ RetryLoop
  \/ RetryLocate
  \/ RetryScroll
  \/ RetrySettle
  \/ RetryClick
  \/ RetryClear
  \/ RetrySendKeys
  \/ RetryVerify
  \/ RetryCatch
  \/ TextGetText
  \/ TextInnerHTML
  \/ TextContent
  \/ TextCatch

SpecRetry == InitRetry /\ [][NextRetry]_vars

\* ------------------------------------------------------------------ selectors
\* SeleniumUtils.getSmartSelector. A selector is a sequence of characters.

\* Longest selector body (the part after an optional text prefix).
MaxBody == 3

SelectorChars == {"a", "=", "[", " ", "/", "(", "#", "."}

TextPrefix == <<"t", "e", "x", "t", ":">>

PartialTextPrefix == <<"p", "a", "r", "t", "i", "a", "l", "-", "t", "e", "x", "t", ":">>

SeqsUpTo(n) == UNION {[1..m -> SelectorChars] : m \in 0..n}

\* The prefixes PlaywrightUtils.getSelectorInfo tests for.
TextEqPrefix == <<"t", "e", "x", "t", "=">>

RolePrefix == <<"r", "o", "l", "e", "=">>

LabelPrefix == <<"l", "a", "b", "e", "l", "=">>

PlaceholderPrefix == <<"p", "l", "a", "c", "e", "h", "o", "l", "d", "e", "r", "=">>

DataTestIdPrefix == <<"d", "a", "t", "a", "-", "t", "e", "s", "t", "i", "d", "=">>

SelectorPrefixes ==
  {<<>>, TextPrefix, PartialTextPrefix, TextEqPrefix, <<"a", " ">> \o TextEqPrefix,
   RolePrefix, LabelPrefix, PlaceholderPrefix, DataTestIdPrefix}

Selectors == {p \o b : p \in SelectorPrefixes, b \in SeqsUpTo(MaxBody)}

\* String.prototype.startsWith, includes and substring(n).
StartsWith(s, p) == Len(s) >= Len(p) /\ SubSeq(s, 1, Len(p)) = p

Includes(s, c) == \E i \in 1..Len(s) : s[i] = c

\* String.prototype.includes with a longer needle.
IncludesString(s, p) ==
  \E i \in 1..(Len(s) - Len(p) + 1) : SubSeq(s, i, i + Len(p) - 1) = p

Substring(s, n) == SubSeq(s, n + 1, Len(s))

\* Index of the first c in s at or after position from; Len(s) + 1 when none.
IndexFrom(s, c, from) ==
  IF \E i \in from..Len(s) : s[i] = c
    THEN CHOOSE i \in from..Len(s) : s[i] = c /\ \A j \in from..(i - 1) : s[j] # c
    ELSE Len(s) + 1

\* const [attr, value] = selector.split('='): the first two pieces.
SplitAttr(s) == SubSeq(s, 1, IndexFrom(s, "=", 1) - 1)

SplitValue(s) ==
  LET first == IndexFrom(s, "=", 1)
  IN SubSeq(s, first + 1, IndexFrom(s, "=", first + 1) - 1)

AttributeCss(attr, value) == <<"[">> \o attr \o <<"=", "\"">> \o value \o <<"\"", "]">>

ContainsTextXPath(text) == <<"//*[contains(text(), \"">> \o text \o <<"\")]">>

\* SeleniumUtils.getSmartSelector(selector): the By locator it returns.
GetSmartSelector(s) ==
  IF StartsWith(s, <<"/", "/">>) \/ StartsWith(s, <<"(", "/", "/">>)
    THEN [by |-> "xpath", value |-> s]
  ELSE IF StartsWith(s, <<"#">>)
    THEN [by |-> "id", value |-> Substring(s, 1)]
  ELSE IF StartsWith(s, <<".">>)
    THEN [by |-> "className", value |-> Substring(s, 1)]
  ELSE IF Includes(s, "=") /\ ~Includes(s, "[") /\ ~Includes(s, " ")
    THEN [by |-> "css", value |-> AttributeCss(SplitAttr(s), SplitValue(s))]
  ELSE IF StartsWith(s, TextPrefix)
    THEN [by |-> "xpath", value |-> ContainsTextXPath(Substring(s, 5))]
  ELSE IF StartsWith(s, PartialTextPrefix)
    THEN [by |-> "xpath", value |-> ContainsTextXPath(Substring(s, 13))]
  ELSE [by |-> "css", value |-> s]

\* The `by` BaseSeleniumDriver.findElement builds (lines 253-266).
FindElementLocator(s) ==
  IF StartsWith(s, <<"/", "/">>) \/ StartsWith(s, <<"(", "/", "/">>)
    THEN [by |-> "xpath", value |-> s]
  ELSE IF StartsWith(s, <<"#">>)
    THEN [by |-> "id", value |-> Substring(s, 1)]
  ELSE IF StartsWith(s, <<".">>)
    THEN [by |-> "className", value |-> Substring(s, 1)]
  ELSE IF Includes(s, "=")
    THEN [by |-> "css", value |-> AttributeCss(SplitAttr(s), SplitValue(s))]
  ELSE [by |-> "css", value |-> s]

\* The `by` BaseSeleniumDriver.findElements builds (lines 284-293).
FindElementsLocator(s) ==
  IF StartsWith(s, <<"/", "/">>) \/ StartsWith(s, <<"(", "/", "/">>)
    THEN [by |-> "xpath", value |-> s]
  ELSE IF StartsWith(s, <<"#">>)
    THEN [by |-> "id", value |-> Substring(s, 1)]
  ELSE IF StartsWith(s, <<".">>)
    THEN [by |-> "className", value |-> Substring(s, 1)]
  ELSE [by |-> "css", value |-> s]

\* PlaywrightUtils.getSelectorInfo(selector): the info object it returns.
GetSelectorInfo(s) ==
  IF StartsWith(s, <<"/", "/">>) \/ StartsWith(s, <<"(", "/", "/">>)
    THEN [type |-> "xpath", selector |-> s, strategy |-> "xpath"]
  ELSE IF StartsWith(s, TextEqPrefix)
    THEN [type |-> "text", selector |-> s, strategy |-> "text"]
  ELSE IF IncludesString(s, TextEqPrefix)
    THEN [type |-> "text", selector |-> s, strategy |-> "partial-text"]
  ELSE IF StartsWith(s, RolePrefix)
    THEN [type |-> "role", selector |-> s, strategy |-> "role"]
  ELSE IF StartsWith(s, LabelPrefix)
    THEN [type |-> "label", selector |-> s, strategy |-> "label"]
  ELSE IF StartsWith(s, PlaceholderPrefix)
    THEN [type |-> "placeholder", selector |-> s, strategy |-> "placeholder"]
  ELSE IF StartsWith(s, DataTestIdPrefix)
    THEN [type |-> "testid",
          selector |-> AttributeCss(<<"data-testid">>, Substring(s, 13)),
          strategy |-> "testid"]
  ELSE [type |-> "css", selector |-> s, strategy |-> "css"]

\* A call getSmartSelector(selector).
Resolve ==
  /\ locator.by = "none"
  /\ locator' = GetSmartSelector(selector)
  /\ UNCHANGED <<selector, findElementBy, findElementsBy, selectorInfo>>
  /\ UNCHANGED exceptSelector

\* The selector resolution of a findElement(selector) call.
ResolveFindElement ==
  /\ findElementBy.by = "none"
  /\ findElementBy' = FindElementLocator(selector)
  /\ UNCHANGED <<selector, locator, findElementsBy, selectorInfo>>
  /\ UNCHANGED exceptSelector

\* The selector resolution of a findElements(selector) call.
ResolveFindElements ==
  /\ findElementsBy.by = "none"
  /\ findElementsBy' = FindElementsLocator(selector)
  /\ UNCHANGED <<selector, locator, findElementBy, selectorInfo>>
  /\ UNCHANGED exceptSelector

\* A call PlaywrightUtils.getSelectorInfo(selector).
Analyze ==
  /\ selectorInfo.type = "none"
  /\ selectorInfo' = GetSelectorInfo(selector)
  /\ UNCHANGED <<selector, locator, findElementBy, findElementsBy>>
  /\ UNCHANGED exceptSelector

InitSelector ==
  /\ selector \in Selectors
  /\ locator = NoLocator
  /\ findElementBy = NoLocator
  /\ findElementsBy = NoLocator
  /\ selectorInfo = NoSelectorInfo
  /\ DriverIdle
  /\ RetryIdle
  /\ WaitIdle
  /\ CaptureIdle
  /\ LaterIdle

NextSelector ==
  \/ Resolve
  \/ ResolveFindElement
  \/ ResolveFindElements
  \/ Analyze

SpecSelector == InitSelector /\ [][NextSelector]_vars

\* ------------------------------------------------------------------ timed waits
\* The operations that take a `timeout` argument, on a started driver, one engine
\* call per step, with the time each call takes.

\* this.options.timeout and this.options.implicitWait as the constructors
\* default them.
DefaultTimeout == 30000

DefaultImplicitWait == 10000

TimedOps ==
  {"findElement", "click", "sendKeys", "clearText", "getText", "waitForElement",
   "waitForVisible", "waitForClickable"}

\* The `timeout` argument: not supplied (null), or a number of milliseconds.
NotSupplied == [supplied |-> FALSE, ms |-> 0]

Supplied(ms) == [supplied |-> TRUE, ms |-> ms]

TimeoutArgs == {NotSupplied} \cup {Supplied(ms) : ms \in {0, 1000, 20000}}

WaitOptions(d) ==
  {[timeout |-> t, implicitWait |-> i] :
     t \in {DefaultTimeout, 2000, 0},
     i \in IF d = "selenium" THEN {DefaultImplicitWait, 0} ELSE {0}}

\* The JavaScript expression `timeout || this.options.timeout`.
JsOr(t, default) == IF t.supplied /\ t.ms # 0 THEN t.ms ELSE default

EngineWait(k, ms) == [kind |-> k, timeout |-> ms]

NativeCall == [kind |-> "native", timeout |-> 0]

\* The engine calls of the BaseSeleniumDriver operations with the timeout each
\* wait is given. findElement computes `timeout || this.options.timeout` from
\* the argument it receives; the waitFor* operations pass it their timeoutMs.
SeleniumWaitPlan(op, t, o) ==
  LET own == JsOr(t, o.timeout)
      direct == EngineWait("locate", JsOr(t, o.timeout))
      viaTimeoutMs == EngineWait("locate", JsOr(Supplied(own), o.timeout))
  IN CASE op = "findElement" -> <<direct>>
       [] op \in {"click", "sendKeys"} ->
            <<direct, EngineWait("condition", own), NativeCall>>
       [] op \in {"clearText", "getText"} -> <<direct, NativeCall>>
       [] op = "waitForElement" -> <<viaTimeoutMs>>
       [] op \in {"waitForVisible", "waitForClickable"} ->
            <<viaTimeoutMs, EngineWait("condition", own)>>

\* The same for PlaywrightDriver: one auto-waiting page call given
\* { timeout: timeoutMs }; waitForClickable then calls page.isEnabled(selector).
PlaywrightWaitPlan(op, t, o) ==
  LET call == EngineWait("locate", JsOr(t, o.timeout))
  IN IF op = "waitForClickable" THEN <<call, NativeCall>> ELSE <<call>>

WaitPlan ==
  IF wdriver = "selenium" THEN SeleniumWaitPlan(wop, wtimeout, woptions)
                          ELSE PlaywrightWaitPlan(wop, wtimeout, woptions)

\* When a wait for a selector that never matches gives up. driver.wait
\* re-checks its deadline only between polls, and a poll of until.elementLocated
\* is a findElements command, which the session's implicit wait (set by start(),
\* lines 184-188) holds for implicitWait ms when nothing matches.
\* page.waitForSelector gives up at its timeout.
LocateGivesUpAfter(d, ms, implicitWait) ==
  IF d = "selenium" /\ implicitWait > 0
    THEN ((ms + implicitWait - 1) \div implicitWait) * implicitWait
    ELSE ms

\* How an engine wait can go: the element or condition is never there, is there
\* at once, or appears as the deadline is reached.
WaitResults == {"never", "atOnce", "late"}

Advance ==
  /\ wstep' = wstep + 1
  /\ woutcome' = IF wstep + 1 > Len(WaitPlan) THEN "ok" ELSE "running"

\* An engine wait with timeout ms; a timeout of 0 disables the deadline.
Wait(ms, r, giveUp, failure) ==
  /\ applied' = Append(applied, ms)
  /\ IF r = "never"
       THEN /\ wstep' = wstep
            /\ woutcome' = IF ms = 0 THEN "hung" ELSE failure
            /\ elapsed' = IF ms = 0 THEN elapsed ELSE elapsed + giveUp
       ELSE /\ Advance
            /\ elapsed' = IF r = "late" THEN elapsed + ms ELSE elapsed

\* driver.wait(until.elementLocated(by), timeoutMs) / the page call of Playwright.
WaitLocate ==
  /\ woutcome = "running"
  /\ WaitPlan[wstep].kind = "locate"
  /\ \E r \in WaitResults :
       LET ms == WaitPlan[wstep].timeout
       IN Wait(ms, r, LocateGivesUpAfter(wdriver, ms, woptions.implicitWait),
               "notFound")
  /\ UNCHANGED <<wdriver, woptions, wop, wtimeout>>
  /\ UNCHANGED exceptWait

\* driver.wait(until.elementIsEnabled(element) / elementIsVisible(element), timeout)
WaitCondition ==
  /\ woutcome = "running"
  /\ WaitPlan[wstep].kind = "condition"
  /\ \E r \in WaitResults :
       LET ms == WaitPlan[wstep].timeout
       IN Wait(ms, r, ms, "failed")
  /\ UNCHANGED <<wdriver, woptions, wop, wtimeout>>
  /\ UNCHANGED exceptWait

\* element.click() / sendKeys / clear / getText, page.isEnabled: returns or throws.
WaitNative ==
  /\ woutcome = "running"
  /\ WaitPlan[wstep].kind = "native"
  /\ \E ok \in BOOLEAN :
       IF ok THEN Advance ELSE wstep' = wstep /\ woutcome' = "failed"
  /\ UNCHANGED <<wdriver, woptions, wop, wtimeout, applied, elapsed>>
  /\ UNCHANGED exceptWait

\* A call of a timed operation on a started driver.
WaitInit ==
  /\ wdriver \in {"selenium", "playwright"}
  /\ woptions \in WaitOptions(wdriver)
  /\ wop \in TimedOps
  /\ wtimeout \in TimeoutArgs
  /\ wstep = 1
  /\ applied = <<>>
  /\ elapsed = 0
  /\ woutcome = "running"

InitWait == WaitInit /\ DriverIdle /\ RetryIdle /\ SelectorIdle /\ CaptureIdle /\ LaterIdle

NextWait ==
  \/ WaitLocate
  \/ WaitCondition
  \/ WaitNative

SpecWait == InitWait /\ [][NextWait]_vars

\* ------------------------------------------------------------------ screenshots
\* takeScreenshot on a started driver, with the directories and files it leaves.

\* takeScreenshot calls in a behaviour.
MaxShots == 2

\* Clock ticks in a behaviour, and ticks per second of wall-clock time.
MaxTicks == 3

TicksPerSecond == 2

NullArg == "null"

\* filename arguments: null, the empty string, a name with and one without
\* extension.
Filenames == {NullArg, "", "a.png", "b"}

\* path.extname and path.basename(filename, extension) on these names.
Extname(f) == IF f = "a.png" THEN ".png" ELSE ""

Basename(f) == IF f = "a.png" THEN "a" ELSE f

\* `if (filename)`: null and '' are falsy.
Truthy(f) == f \notin {NullArg, ""}

\* this.outputDirectoryBasePath (resolved './output') and this.screenshotsDirectory.
OutputDirectoryBasePath == "/project/output"

ScreenshotsDirectory == "screenshots"

\* The (baseDirectory, screenshotsDirectory) arguments a call passes.
DirectoryArgs == {<<NullArg, NullArg>>, <<"/data", "alt">>}

\* `baseDirectory || this.outputDirectoryBasePath` and the like.
OrConfigured(arg, configured) == IF arg = NullArg THEN configured ELSE arg

\* createScreenshotsDirectory: path.resolve(resolvedBaseDirectory, screenshotsDirectory)
ScreenshotsPath(d) ==
  OrConfigured(d[1], OutputDirectoryBasePath) \o "/"
  \o OrConfigured(d[2], ScreenshotsDirectory)

\* new Date().toISOString() with ':' and '.' replaced, cut by slice(0, -5) to
\* whole seconds.
Timestamp(t) == ToString(t \div TicksPerSecond)

\* _generateFilename(baseName, includeTimestamp) at clock t.
GenerateFilename(baseName, includeTimestamp, t) ==
  IF includeTimestamp
    THEN Basename(baseName) \o "_" \o Timestamp(t) \o Extname(baseName)
    ELSE baseName

\* path.join(paths.screenshotsPath, finalFilename), with '.png' appended when
\* path.extname(filepath) is empty (the timestamp holds no '.').
FinalPath(d, baseName, includeTimestamp, t) ==
  ScreenshotsPath(d) \o "/" \o GenerateFilename(baseName, includeTimestamp, t)
  \o (IF Extname(baseName) = "" THEN ".png" ELSE "")

\* fs.mkdir(screenshotsPath, { recursive: true })
MkdirRecursiveOff == FALSE

MkdirRecursive == TRUE

\* fs.mkdir on a directory that exists: a no-op when recursive, EEXIST otherwise.
MkdirRefuses(existing, p) == ~MkdirRecursive /\ p \in existing

\* The calls takeScreenshot awaits, in order.
ScreenshotSteps(d, withFile) ==
  IF d = "selenium" THEN SeleniumOpSteps("takeScreenshot", withFile)
                    ELSE PlaywrightOpSteps("takeScreenshot", withFile)

\* The awaited call that puts the image at the path.
WriteCall(d) == IF d = "selenium" THEN "fs.writeFile" ELSE "page.screenshot(path)"

IndexOf(steps, name) == CHOOSE i \in 1..Len(steps) : steps[i] = name

FileAt(fs, p) == IF \E x \in fs : x.path = p THEN CHOOSE x \in fs : x.path = p ELSE NoFile

\* takeScreenshot(filename, includeTimestamp, baseDirectory, screenshotsDirectory)
\* on a started driver; f is the awaited call that throws (0: none).
TakeScreenshot ==
  /\ shots < MaxShots
  /\ \E filename \in Filenames, includeTimestamp \in BOOLEAN, d \in DirectoryArgs :
       /\ ~Truthy(filename) => (includeTimestamp /\ d = <<NullArg, NullArg>>)
       /\ LET withFile == Truthy(filename)
              steps == ScreenshotSteps(cdriver, withFile)
          IN \E f \in 0..Len(steps) :
               LET directory == ScreenshotsPath(d)
                   refused == /\ withFile
                              /\ MkdirRefuses(dirs, directory)
                              /\ (f = 0 \/ f >= IndexOf(steps, "fs.mkdir"))
                   thrown == IF refused THEN IndexOf(steps, "fs.mkdir") ELSE f
                   made == withFile /\ Succeeded(steps, thrown, "fs.mkdir")
                   wrote == withFile /\ Succeeded(steps, thrown, WriteCall(cdriver))
                   finalPath == FinalPath(d, filename, includeTimestamp, now)
                   image == [path |-> finalPath, id |-> shots + 1,
                             second |-> now \div TicksPerSecond,
                             filename |-> filename, directory |-> directory,
                             stamped |-> includeTimestamp]
               IN /\ dirs' = IF made THEN dirs \cup {directory} ELSE dirs
                  /\ files' = IF wrote
                                THEN {x \in files : x.path # finalPath} \cup {image}
                                ELSE files
                  /\ shot' = [filename |-> filename,
                              includeTimestamp |-> includeTimestamp,
                              directory |-> directory,
                              calls |-> Issued(steps, thrown),
                              outcome |-> IF thrown = 0 THEN "ok" ELSE "failed",
                              error |-> IF thrown = 0 THEN "none"
                                        ELSE IF refused THEN "EEXIST" ELSE "io",
                              returned |-> IF thrown # 0 THEN "none"
                                           ELSE IF withFile THEN "path" ELSE "data",
                              path |-> IF withFile THEN finalPath ELSE "",
                              id |-> shots + 1,
                              second |-> now \div TicksPerSecond,
                              replaced |-> IF wrote THEN FileAt(files, finalPath)
                                                    ELSE NoFile,
                              preDirs |-> dirs, preFiles |-> files]
  /\ shots' = shots + 1
  /\ UNCHANGED <<cdriver, now>>
  /\ UNCHANGED exceptCapture

\* Wall-clock time passes between calls.
Tick ==
  /\ now < MaxTicks
  /\ now' = now + 1
  /\ UNCHANGED <<cdriver, dirs, files, shots, shot>>
  /\ UNCHANGED exceptCapture

\* A started driver, nothing captured yet; the output directory may exist.
CaptureInit ==
  /\ cdriver \in {"selenium", "playwright"}
  /\ now = 0
  /\ dirs \in {{}, {ScreenshotsPath(<<NullArg, NullArg>>)}}
  /\ files = {}
  /\ shots = 0
  /\ shot = NoShot

InitCapture == CaptureInit /\ DriverIdle /\ RetryIdle /\ SelectorIdle /\ WaitIdle /\ LaterIdle

NextCapture ==
  \/ TakeScreenshot
  \/ Tick

SpecCapture == InitCapture /\ [][NextCapture]_vars


\* ------------------------------------------------------------------ lifecycle contract
\* A BaseSeleniumDriver and a PlaywrightDriver, both constructed with the
\* defaults on a local machine, are given the same calls; the two engines answer
\* each call alike: either no engine call of it throws, or one does.

Answers == {"success", "failure"}

\* The engine calls the BaseSeleniumDriver instance d awaits for the call.
SeleniumCallSteps(d, op) ==
  CASE op = "start" ->
         IF d.isStarted THEN <<>> ELSE SeleniumStartSteps(DefaultOptions("base"))
    [] op = "quit" ->
         IF ~d.isStarted \/ d.driver = 0 THEN <<>> ELSE <<"driver.quit">>
    [] OTHER ->
         IF EnsureStartedSelenium(d.isStarted, d.driver)
           THEN SeleniumOpSteps(op, FALSE) ELSE <<>>

\* One call on the BaseSeleniumDriver instance d; f is the awaited call that
\* throws (0: none). Gives the instance afterwards and the outcome class.
SeleniumCall(d, op, url, f) ==
  LET steps == SeleniumCallSteps(d, op)
      class == IF f = 0 THEN "success" ELSE "failure"
  IN CASE op = "start" ->
            IF d.isStarted
              THEN [state |-> d, outcome |-> "success"]
              ELSE [state |-> [d EXCEPT
                                 !.driver = IF Succeeded(steps, f, "builder.build")
                                              THEN 1 ELSE @,
                                 !.isStarted = (f = 0)],
                    outcome |-> class]
       [] op = "quit" ->
            IF ~d.isStarted \/ d.driver = 0
              THEN [state |-> d, outcome |-> "success"]
            ELSE IF f = 0
              THEN [state |-> [isStarted |-> FALSE, driver |-> 0,
                               currentUrl |-> NullUrl],
                    outcome |-> "success"]
              ELSE [state |-> d, outcome |-> "failure"]
       [] OTHER ->
            IF ~EnsureStartedSelenium(d.isStarted, d.driver)
              THEN [state |-> d, outcome |-> "notStarted"]
              ELSE [state |-> [d EXCEPT
                                 !.currentUrl =
                                   IF op = "navigateTo" /\ Succeeded(steps, f, "get")
                                     THEN url ELSE @],
                    outcome |-> class]

\* The handles of the PlaywrightDriver instance d that quit() closes, in order.
PlaywrightLiveHandles(d) ==
  LET Live(part) == d[part] # 0
  IN SelectSeq(PlaywrightQuitOrder, Live)

\* The engine calls the PlaywrightDriver instance d awaits for the call.
PlaywrightCallSteps(d, op) ==
  CASE op = "start" ->
         IF d.isStarted THEN <<>>
                        ELSE PlaywrightStartSteps(DefaultOptions("playwright"))
    [] op = "quit" ->
         IF ~d.isStarted THEN <<>> ELSE PlaywrightLiveHandles(d)
    [] OTHER ->
         IF EnsureStartedPlaywright(d.isStarted, d.page)
           THEN PlaywrightOpSteps(op, FALSE) ELSE <<>>

\* One call on the PlaywrightDriver instance d; f is the awaited call that
\* throws (0: none).
PlaywrightCall(d, op, url, f) ==
  LET steps == PlaywrightCallSteps(d, op)
      class == IF f = 0 THEN "success" ELSE "failure"
      Handle(part, call) == IF Succeeded(steps, f, call) THEN 1 ELSE d[part]
      After(part) == IF Succeeded(steps, f, part) THEN 0 ELSE d[part]
  IN CASE op = "start" ->
            IF d.isStarted
              THEN [state |-> d, outcome |-> "success"]
              ELSE [state |-> [d EXCEPT
                                 !.browser = Handle("browser", "launch"),
                                 !.context = Handle("context", "newContext"),
                                 !.page = Handle("page", "newPage"),
                                 !.isStarted = (f = 0)],
                    outcome |-> class]
       [] op = "quit" ->
            IF ~d.isStarted
              THEN [state |-> d, outcome |-> "success"]
              ELSE [state |-> [isStarted |-> (f # 0),
                               browser |-> After("browser"),
                               context |-> After("context"),
                               page |-> After("page"),
                               currentUrl |-> IF f = 0 THEN NullUrl
                                                       ELSE d.currentUrl],
                    outcome |-> class]
       [] OTHER ->
            IF ~EnsureStartedPlaywright(d.isStarted, d.page)
              THEN [state |-> d, outcome |-> "notStarted"]
              ELSE [state |-> [d EXCEPT
                                 !.currentUrl =
                                   IF op = "navigateTo" /\
                                      Succeeded(steps, f, "page.goto")
                                     THEN url ELSE @],
                    outcome |-> class]

\* The awaited calls that may throw under the engine's answer.
FailingSteps(steps, answer) ==
  IF answer = "success" \/ steps = <<>> THEN {0} ELSE 1..Len(steps)

\* The same call on both instances, answered alike.
BothCall(op, url) ==
  \E answer \in Answers :
    \E f \in FailingSteps(SeleniumCallSteps(selenium, op), answer),
       g \in FailingSteps(PlaywrightCallSteps(playwright, op), answer) :
      LET s == SeleniumCall(selenium, op, url, f)
          p == PlaywrightCall(playwright, op, url, g)
      IN /\ selenium' = s.state
         /\ playwright' = p.state
         /\ answered' = [op |-> op, answer |-> answer, selenium |-> s.outcome,
                         playwright |-> p.outcome]

BothStart ==
  /\ BothCall("start", NullUrl)
  /\ UNCHANGED exceptPair

BothQuit ==
  /\ BothCall("quit", NullUrl)
  /\ UNCHANGED exceptPair

BothNavigateTo ==
  /\ \E url \in Urls : BothCall("navigateTo", url)
  /\ UNCHANGED exceptPair

BothClick ==
  /\ BothCall("click", NullUrl)
  /\ UNCHANGED exceptPair

InitPair == PairIdle /\ EarlierIdle /\ LambdaIdle /\ ConfigIdle /\ MonitorIdle /\ OverlapIdle /\ UtilIdle

NextPair ==
  \/ BothStart
  \/ BothQuit
  \/ BothNavigateTo
  \/ BothClick

SpecPair == InitPair /\ [][NextPair]_vars


\* ------------------------------------------------------------------ lambda_handler
\* The serverless handler, one awaited call per step. It drives a
\* PlaywrightDriver built with createDriverOptions.

\* The event, as far as extractPageData branches on it: extract.heading !== false,
\* extract.metadata !== false, extract.customScript set.
Events == [heading : BOOLEAN, metadata : BOOLEAN, customScript : BOOLEAN]

\* body.data: null until extractPageData has returned.
NullData ==
  [set |-> FALSE, mainHeading |-> "absent", metadata |-> "absent",
   customScriptResult |-> "absent"]

\* `response` as initialised at lines 32-46.
InitialResponse ==
  [statusCode |-> 200, status |-> "success", error |-> "null", stack |-> "absent",
   data |-> NullData]

\* process.env.NODE_ENV: not set, or set to one of these spellings.
HandlerNodeEnvs == {"unset", "production", "development", "Production"}

\* The stack trace an Error object can carry; it names internal files and lines.
Stacks == {"at PlaywrightDriver.start (playwrightDriver.js)", "at lambda_handler (index.js)"}

\* The stack of the error an action leaves in `caught`.
StackOf(error) == IF error = "none" THEN {"none"} ELSE Stacks

\* Mutant of ExposeStack: the stack is copied whatever the environment.
ExposeStackAlways(nodeEnvValue) == TRUE

\* The test of line 110: process.env.NODE_ENV !== 'production'.
ExposeStack(nodeEnvValue) == nodeEnvValue # "production"

\* Mutant of CleanupGuard: the cleanup is skipped once an error was recorded.
CleanupGuardOnSuccess(d, r) == d.created /\ d.isStarted /\ r.statusCode = 200

\* The condition of the finally block: driver && driver.getIsStarted().
CleanupGuard(d, r) == d.created /\ d.isStarted

\* Whether JSON.stringify accepts the body: it throws a TypeError on a BigInt or
\* a cyclic value, which only the result of the custom script can be.
Stringifiable(r) == r.data.customScriptResult # "nonJson"

\* loadConfiguration never throws: a ConfigManager that cannot be built is
\* replaced by the environment-backed configuration.
LoadConfiguration ==
  /\ lpc = "loadConfiguration"
  /\ \E src \in {"file", "environment"} :
       trace' = Append(trace, "loadConfiguration:" \o src)
  /\ lpc' = "createDriver"
  /\ UNCHANGED <<event, NODE_ENV, response, caught, thrownStack, ldriver>>
  /\ UNCHANGED exceptLambda

\* Lines 57-65: the reads of the configuration, createDriverOptions and the
\* constructor; a configuration value of the wrong shape throws.
CreateDriver ==
  /\ lpc = "createDriver"
  /\ \E ok \in BOOLEAN :
       IF ok
         THEN /\ ldriver' = [created |-> TRUE, isStarted |-> FALSE, browser |-> 0]
              /\ lpc' = "start"
              /\ UNCHANGED caught
         ELSE /\ caught' = "ConfigurationFailed"
              /\ lpc' = "catch"
              /\ UNCHANGED ldriver
  /\ thrownStack' \in StackOf(caught')
  /\ trace' = Append(trace, "createDriverOptions")
  /\ UNCHANGED <<event, NODE_ENV, response>>
  /\ UNCHANGED exceptLambda

\* await driver.start() (line 69); f is the call of start() that throws.
HandlerStart ==
  /\ lpc = "start"
  /\ \E f \in 0..Len(PlaywrightStartSteps(DefaultOptions("playwright"))) :
       LET steps == PlaywrightStartSteps(DefaultOptions("playwright"))
       IN /\ ldriver' = [ldriver EXCEPT
                           !.isStarted = (f = 0),
                           !.browser = IF Succeeded(steps, f, "launch") THEN 1 ELSE 0]
          /\ caught' = IF f = 0 THEN "none" ELSE "StartFailed"
          /\ lpc' = IF f = 0 THEN "navigateTo" ELSE "catch"
  /\ thrownStack' \in StackOf(caught')
  /\ trace' = Append(trace, "start")
  /\ UNCHANGED <<event, NODE_ENV, response>>
  /\ UNCHANGED exceptLambda

\* await driver.navigateTo(targetUrl) and the check of navigationResult.success
\* (lines 72-76).
HandlerNavigateTo ==
  /\ lpc = "navigateTo"
  /\ \E r \in {"ok", "notOk", "throws"} :
       /\ caught' = CASE r = "ok" -> "none"
                      [] r = "notOk" -> "NavigationFailed"
                      [] r = "throws" -> "FailedToNavigate"
       /\ lpc' = IF r = "ok" THEN "extractPageData" ELSE "catch"
  /\ thrownStack' \in StackOf(caught')
  /\ trace' = Append(trace, "navigateTo")
  /\ UNCHANGED <<event, NODE_ENV, response, ldriver>>
  /\ UNCHANGED exceptLambda

\* What one guarded extraction leaves in `data`: the value, or null when the
\* driver call threw; the field is absent when the extraction is switched off.
Extracted(wanted, values) == IF wanted THEN values \cup {"null"} ELSE {"absent"}

\* extractPageData and the assignment of response.body.data (lines 80-92).
\* getTitle or getCurrentUrl throwing is fatal; every other extraction swallows
\* its error.
ExtractPageData ==
  /\ lpc = "extractPageData"
  /\ \E fatal \in BOOLEAN :
       IF fatal
         THEN /\ caught' = "DataExtractionFailed"
              /\ lpc' = "catch"
              /\ UNCHANGED response
         ELSE \E h \in Extracted(event.heading, {"text"}),
                 m \in Extracted(event.metadata, {"metadata"}),
                 s \in Extracted(event.customScript, {"json", "nonJson"}) :
                /\ response' = [response EXCEPT
                                  !.data = [set |-> TRUE, mainHeading |-> h,
                                            metadata |-> m,
                                            customScriptResult |-> s]]
                /\ lpc' = "finally"
                /\ UNCHANGED caught
  /\ thrownStack' \in StackOf(caught')
  /\ trace' = Append(trace, "extractPageData")
  /\ UNCHANGED <<event, NODE_ENV, ldriver>>
  /\ UNCHANGED exceptLambda

\* The catch block (lines 96-112).
HandlerCatch ==
  /\ lpc = "catch"
  /\ response' = [response EXCEPT
                    !.statusCode = 500, !.status = "error", !.error = caught,
                    !.stack = IF ExposeStack(NODE_ENV) THEN thrownStack ELSE "absent"]
  /\ lpc' = "finally"
  /\ UNCHANGED <<event, NODE_ENV, caught, thrownStack, ldriver, trace>>
  /\ UNCHANGED exceptLambda

\* The guard of the finally block (line 116).
HandlerFinally ==
  /\ lpc = "finally"
  /\ lpc' = IF CleanupGuard(ldriver, response) THEN "quit" ELSE "return"
  /\ UNCHANGED <<event, NODE_ENV, response, caught, thrownStack, ldriver, trace>>
  /\ UNCHANGED exceptLambda

\* await driver.quit() inside its own try/catch (lines 117-122).
HandlerQuit ==
  /\ lpc = "quit"
  /\ \E ok \in BOOLEAN :
       ldriver' = IF ok THEN [ldriver EXCEPT !.isStarted = FALSE, !.browser = 0]
                        ELSE ldriver
  /\ trace' = Append(trace, "quit")
  /\ lpc' = "return"
  /\ UNCHANGED <<event, NODE_ENV, response, caught, thrownStack>>
  /\ UNCHANGED exceptLambda

\* return { ...response, body: JSON.stringify(response.body) } (lines 130-133);
\* the stringify is outside every try block.
HandlerReturn ==
  /\ lpc = "return"
  /\ lpc' = IF Stringifiable(response) THEN "returned" ELSE "rejected"
  /\ trace' = Append(trace, "return")
  /\ UNCHANGED <<event, NODE_ENV, response, caught, thrownStack, ldriver>>
  /\ UNCHANGED exceptLambda

LambdaInit ==
  /\ event \in Events
  /\ NODE_ENV \in HandlerNodeEnvs
  /\ lpc = "loadConfiguration"
  /\ response = InitialResponse
  /\ caught = "none"
  /\ thrownStack = "none"
  /\ ldriver = [created |-> FALSE, isStarted |-> FALSE, browser |-> 0]
  /\ trace = <<>>

InitLambda == LambdaInit /\ EarlierIdle /\ PairIdle /\ ConfigIdle /\ MonitorIdle /\ OverlapIdle /\ UtilIdle

NextLambda ==
  \/ LoadConfiguration
  \/ CreateDriver
  \/ HandlerStart
  \/ HandlerNavigateTo
  \/ ExtractPageData
  \/ HandlerCatch
  \/ HandlerFinally
  \/ HandlerQuit
  \/ HandlerReturn

SpecLambda == InitLambda /\ [][NextLambda]_vars


\* ------------------------------------------------------------------ ConfigManager
\* ConfigManager.get over a JSON configuration and an environment. An object is
\* the sequence of its own entries in insertion order.

\* Keys: two spellings of one logical key, and one that Object.prototype also has.
ConfigKeys == {"PORT", "port", "constructor"}

KeyToLowerCase(k) == IF k = "PORT" THEN "port" ELSE k

\* Property names every plain object inherits (all-lowercase ones).
PrototypeKeys == {"constructor"}

\* Values of a JSON configuration ("null": the JSON null) and of the environment.
JsonValues == {"jsonValue", "", "null"}

EnvValues == {"envValue"}

DefaultValue == "defaultValue"

Objects(values) ==
  {o \in UNION {[1..n -> [key : ConfigKeys, value : values]] : n \in 0..MaxEntries} :
     \A i, j \in DOMAIN o : i # j => o[i].key # o[j].key}

\* obj.hasOwnProperty(key)
HasOwnProperty(obj, key) == \E i \in DOMAIN obj : obj[i].key = key

\* obj[key] of an own property
OwnValue(obj, key) == obj[CHOOSE i \in DOMAIN obj : obj[i].key = key].value

\* The lookup table built by Object.keys(obj).forEach(...): entry lowerKey holds
\* the value of the last own key that lowercases to it. Reading the table at
\* lowerKey gives that entry, else what the table inherits, else undefined.
LowerCaseEntry(obj, lowerKey) ==
  LET hits == {i \in DOMAIN obj : KeyToLowerCase(obj[i].key) = lowerKey}
      Max(S) == CHOOSE m \in S : \A n \in S : n <= m
  IN IF hits # {} THEN [truthy |-> TRUE, value |-> obj[Max(hits)].value]
     ELSE IF lowerKey \in PrototypeKeys THEN [truthy |-> TRUE, value |-> "undefined"]
     ELSE [truthy |-> FALSE, value |-> "undefined"]

\* obj[key] = value: an own key keeps its place, a new one goes last.
Put(obj, key, value) ==
  IF HasOwnProperty(obj, key)
    THEN [i \in DOMAIN obj |->
            IF obj[i].key = key THEN [key |-> key, value |-> value] ELSE obj[i]]
    ELSE Append(obj, [key |-> key, value |-> value])

\* Assigning the entries of `from` to `onto` in insertion order: the spread
\* { ...onto, ...from }.
RECURSIVE Assign(_, _)
Assign(onto, from) ==
  IF from = <<>> THEN onto
  ELSE Assign(Put(onto, Head(from).key, Head(from).value), Tail(from))

\* The table lines 99-107 build: every own key of obj filed under its lowercase
\* spelling, a later key replacing an earlier one with the same spelling.
LowerCaseTable(obj) ==
  Assign(<<>>, [i \in DOMAIN obj |->
                  [key |-> KeyToLowerCase(obj[i].key), value |-> obj[i].value]])

\* JSON.stringify(value) throws a TypeError on a cyclic object or a BigInt.
StringifyThrows(value) == value = "cyclic"

\* The first lookup of get(): `value` after lines 181-192 ("null": not
\* assigned). this.jsonConfigLowerCase exists only when a file was parsed.
JsonLookup(json, loaded, table, sensitive, key) ==
  IF sensitive
    THEN IF HasOwnProperty(json, key) THEN OwnValue(json, key) ELSE "null"
    ELSE IF loaded /\ LowerCaseEntry(table, KeyToLowerCase(key)).truthy
           THEN LowerCaseEntry(table, KeyToLowerCase(key)).value
           ELSE "null"

\* The second lookup (lines 196-207), made when value === null.
EnvLookup(environment, sensitive, key) ==
  IF sensitive
    THEN IF HasOwnProperty(environment, key) THEN OwnValue(environment, key)
                                             ELSE "null"
    ELSE IF LowerCaseEntry(environment, KeyToLowerCase(key)).truthy
           THEN LowerCaseEntry(environment, KeyToLowerCase(key)).value
           ELSE "null"

\* ConfigManager.get(key, defaultValue) without a type. The debug line of
\* line 221 stringifies the value inside the try block, whose catch returns
\* the default.
Get(json, loaded, table, environment, sensitive, key, defaultValue) ==
  LET fromJson == JsonLookup(json, loaded, table, sensitive, key)
      fromEnv == IF fromJson = "null" THEN EnvLookup(environment, sensitive, key)
                                      ELSE fromJson
      value == IF fromEnv = "null" THEN defaultValue ELSE fromEnv
  IN IF StringifyThrows(value) THEN defaultValue ELSE value

\* ConfigManager.has(key) (lines 266-283), as a boolean.
Has(json, loaded, table, environment, sensitive, key) ==
  IF sensitive
    THEN HasOwnProperty(json, key) \/ HasOwnProperty(environment, key)
    ELSE \/ loaded /\ LowerCaseEntry(table, KeyToLowerCase(key)).truthy
         \/ LowerCaseEntry(environment, KeyToLowerCase(key)).truthy

\* ConfigManager.getAll() (lines 309-320): { ...this.envConfig, ...this.jsonConfig }.
GetAll(json, environment) == Assign(environment, json)

\* Number of set() calls in a behaviour.
MaxSets == 2

\* Values set() is called with: a string, null, an object that refers to itself.
SetValues == {"setValue", "null", "cyclic"}

NoSet ==
  [key |-> "none", value |-> "none", outcome |-> "none", sets |-> 0, pre |-> <<>>]

NoGet == [key |-> "none", value |-> "none"]

ConfigGet ==
  /\ \E key \in ConfigKeys :
       got' = [key |-> key,
               value |-> Get(jsonConfig, jsonLoaded, jsonConfigLowerCase, envConfig,
                             caseSensitive, key, DefaultValue)]
  /\ UNCHANGED <<jsonConfig, jsonLoaded, jsonConfigLowerCase, envConfig,
                 caseSensitive, setCall>>
  /\ UNCHANGED exceptConfig

\* ConfigManager.set(key, value) (lines 236-258). The assignment to jsonConfig
\* comes first; the assignment into this.jsonConfigLowerCase throws a TypeError
\* when that table does not exist, and the debug line throws on a value that
\* cannot be stringified. The catch block logs and rethrows.
ConfigSet ==
  /\ setCall.sets < MaxSets
  /\ \E key \in ConfigKeys, value \in SetValues :
       LET noTable == ~caseSensitive /\ ~jsonLoaded
       IN /\ jsonConfig' = Put(jsonConfig, key, value)
          /\ jsonConfigLowerCase' =
               IF caseSensitive \/ noTable THEN jsonConfigLowerCase
               ELSE Put(jsonConfigLowerCase, KeyToLowerCase(key), value)
          /\ setCall' = [key |-> key, value |-> value,
                         outcome |-> IF noTable \/ StringifyThrows(value)
                                       THEN "threw" ELSE "ok",
                         sets |-> setCall.sets + 1,
                         pre |-> jsonConfig]
  /\ got' = NoGet
  /\ UNCHANGED <<jsonLoaded, envConfig, caseSensitive>>
  /\ UNCHANGED exceptConfig

\* The instance the constructor leaves: the environment copied, the file parsed
\* when it exists, the lowercase table built from it unless keys are
\* case-sensitive.
ConfigInit ==
  /\ jsonLoaded \in BOOLEAN
  /\ jsonConfig \in (IF jsonLoaded THEN Objects(JsonValues) ELSE {<<>>})
  /\ envConfig \in Objects(EnvValues)
  /\ caseSensitive \in BOOLEAN
  /\ jsonConfigLowerCase =
       IF jsonLoaded /\ ~caseSensitive THEN LowerCaseTable(jsonConfig) ELSE <<>>
  /\ got = NoGet
  /\ setCall = NoSet

InitConfig == ConfigInit /\ EarlierIdle /\ PairIdle /\ LambdaIdle /\ MonitorIdle /\ OverlapIdle /\ UtilIdle

NextConfig ==
  \/ ConfigGet
  \/ ConfigSet

SpecConfig == InitConfig /\ [][NextConfig]_vars


\* ------------------------------------------------------------------ monitor mode
\* The `monitor` command: setInterval(check, 30000) plus the initial check. A
\* check() suspends at its awaits (container status, health request, restart),
\* so a later invocation may run while an earlier one is suspended.

MAX_FAILURES == 3

\* Mutant of TooManyFailures: the restart is attempted one failure early.
TooManyFailuresEarly(n) == n >= MAX_FAILURES - 1

\* if (consecutive_failures >= MAX_FAILURES)
TooManyFailures(n) == n >= MAX_FAILURES

Invocations == 1..MaxInFlight

\* The rest of check() once the result of this check is known: the counter is
\* updated and the threshold is tested with no await in between.
Conclude(p, failed) ==
  LET n == IF failed THEN consecutive_failures + 1 ELSE 0
  IN /\ consecutive_failures' = n
     /\ streak' = IF failed THEN streak + 1 ELSE 0
     /\ monitored' = [kind |-> IF failed THEN "failed" ELSE "healthy",
                      restart |-> TooManyFailures(n)]
     /\ checks' = [checks EXCEPT ![p] = IF TooManyFailures(n) THEN "restartContainer"
                                                             ELSE "done"]

\* The timer fires (or main makes the initial call): an invocation starts and
\* awaits checkContainerStatus().
CheckBegins ==
  /\ \E p \in Invocations :
       /\ checks[p] = "done"
       /\ checks' = [checks EXCEPT ![p] = "checkContainerStatus"]
  /\ UNCHANGED <<consecutive_failures, streak, monitored>>
  /\ UNCHANGED exceptMonitor

\* checkContainerStatus() resolves: no container or not running counts as a
\* failure; otherwise the health request is sent.
ContainerStatus ==
  /\ \E p \in Invocations :
       /\ checks[p] = "checkContainerStatus"
       /\ \E running \in BOOLEAN :
            IF running
              THEN /\ checks' = [checks EXCEPT ![p] = "testLambdaHealth"]
                   /\ UNCHANGED <<consecutive_failures, streak, monitored>>
              ELSE /\ consecutive_failures < MaxFailuresCounted
                   /\ streak < MaxFailuresCounted
                   /\ Conclude(p, TRUE)
  /\ UNCHANGED exceptMonitor

\* testLambdaHealth() resolves.
LambdaHealth ==
  /\ \E p \in Invocations :
       /\ checks[p] = "testLambdaHealth"
       /\ \E healthy \in BOOLEAN :
            /\ healthy \/ (consecutive_failures < MaxFailuresCounted
                           /\ streak < MaxFailuresCounted)
            /\ Conclude(p, ~healthy)
  /\ UNCHANGED exceptMonitor

\* restartContainer() resolves.
RestartContainer ==
  /\ \E p \in Invocations :
       /\ checks[p] = "restartContainer"
       /\ \E restarted \in BOOLEAN :
            /\ consecutive_failures' = IF restarted THEN 0 ELSE consecutive_failures
            /\ monitored' = [kind |-> IF restarted THEN "restarted"
                                                   ELSE "restartFailed",
                             restart |-> FALSE]
       /\ checks' = [checks EXCEPT ![p] = "done"]
  /\ UNCHANGED streak
  /\ UNCHANGED exceptMonitor

MonitorInit ==
  /\ consecutive_failures = 0
  /\ checks = [p \in Invocations |-> "done"]
  /\ streak = 0
  /\ monitored = [kind |-> "none", restart |-> FALSE]

InitMonitor == MonitorInit /\ EarlierIdle /\ PairIdle /\ LambdaIdle /\ ConfigIdle /\ OverlapIdle /\ UtilIdle

NextMonitor ==
  \/ CheckBegins
  \/ ContainerStatus
  \/ LambdaHealth
  \/ RestartContainer

SpecMonitor == InitMonitor /\ [][NextMonitor]_vars


\* ------------------------------------------------------------------ overlapping start()
\* start() of one instance called more than once without waiting: each call
\* suspends at every await, and the other call may run meanwhile.

StartCalls == 1..MaxStartCalls

\* The calls start() awaits, for the default options of the class.
StartSteps(k) ==
  IF k = "playwright" THEN PlaywrightStartSteps(DefaultOptions("playwright"))
                      ELSE SeleniumStartSteps(DefaultOptions("base"))

\* The field an awaited call of start() assigns its result to, and the engine
\* resource that result is.
Assigns(step) ==
  CASE step = "builder.build" -> [field |-> "driver", part |-> "session"]
    [] step = "launch" -> [field |-> "browser", part |-> "browser"]
    [] step = "newContext" -> [field |-> "context", part |-> "context"]
    [] step = "newPage" -> [field |-> "page", part |-> "page"]
    [] OTHER -> [field |-> "none", part |-> "none"]

NextId == Cardinality(engineOpen) + 1

\* start() is called: the isStarted guard, then the first await.
StartEnters ==
  /\ \E c \in StartCalls :
       /\ starts[c] = "idle"
       /\ starts' = [starts EXCEPT ![c] = IF instance.isStarted THEN "returned"
                                                                ELSE ToString(1)]
  /\ UNCHANGED <<instance, engineOpen>>
  /\ UNCHANGED exceptOverlap

\* The call a start() is suspended at resolves or throws; on the last one
\* resolving isStarted is set.
StartResumes ==
  /\ \E c \in StartCalls, i \in 1..Len(StartSteps(instance.kind)), ok \in BOOLEAN :
       LET steps == StartSteps(instance.kind)
           a == Assigns(steps[i])
           assigned == IF ok /\ a.field # "none"
                         THEN [instance EXCEPT ![a.field] = NextId]
                         ELSE instance
       IN /\ starts[c] = ToString(i)
          /\ engineOpen' = IF ok /\ a.field # "none"
                         THEN engineOpen \cup {<<NextId, a.part>>} ELSE engineOpen
          /\ instance' = IF ok /\ i = Len(steps)
                           THEN [assigned EXCEPT !.isStarted = TRUE]
                           ELSE assigned
          /\ starts' = [starts EXCEPT ![c] = IF ~ok THEN "rejected"
                                             ELSE IF i = Len(steps) THEN "resolved"
                                             ELSE ToString(i + 1)]
  /\ UNCHANGED exceptOverlap

OverlapInit ==
  /\ \E k \in {"base", "playwright"} :
       instance = [kind |-> k, isStarted |-> FALSE, driver |-> 0, browser |-> 0,
                   context |-> 0, page |-> 0]
  /\ starts = [c \in StartCalls |-> "idle"]
  /\ engineOpen = {}

InitOverlap ==
  OverlapInit /\ EarlierIdle /\ PairIdle /\ LambdaIdle /\ ConfigIdle /\ MonitorIdle /\ UtilIdle

NextOverlap ==
  \/ StartEnters
  \/ StartResumes

SpecOverlap == InitOverlap /\ [][NextOverlap]_vars


\* --------------------------------------------- PlaywrightUtils retry helpers
\* basePlaywrightParser.js: smartClick (485-510) and findElementWithFallback
\* (610-636). An option is either left out of the options object or given.
NoOption == [supplied |-> FALSE, v |-> 0]

Option(v) == [supplied |-> TRUE, v |-> v]

\* The JavaScript expression `options.x || default`: undefined and 0 are both
\* falsy and give the default.
OptionOr(o, default) == IF o.supplied /\ o.v # 0 THEN o.v ELSE default

\* Longest selectors list findElementWithFallback is called with.
MaxSelectors == 3

DefaultClickRetries == 3

DefaultClickRetryDelay == 1000

DefaultClickTimeout == 30000

DefaultFallbackTimeout == 30000

SelectorNames == {"#submit", ".btn", "text=OK"}

\* Lists of distinct selectors, the empty list included.
SelectorLists ==
  {s \in UNION {[1..m -> SelectorNames] : m \in 0..MaxSelectors} :
     \A a, b \in 1..Len(s) : s[a] = s[b] => a = b}

RetriesOptions == {NoOption} \cup {Option(n) : n \in -1..MaxRetriesArg}

NoArgs ==
  [retries |-> NoOption, retryDelay |-> NoOption, timeout |-> NoOption,
   selectors |-> <<>>, state |-> "visible"]

SmartClickArgs ==
  {[NoArgs EXCEPT !.retries = r, !.retryDelay = d, !.timeout = t] :
     r \in RetriesOptions,
     d \in {NoOption, Option(0), Option(250)},
     t \in {NoOption, Option(0), Option(5000)}}

FallbackArgs ==
  {[NoArgs EXCEPT !.selectors = s, !.timeout = t, !.state = st] :
     s \in SelectorLists,
     t \in {NoOption, Option(0), Option(6000)},
     st \in {"visible", "hidden"}}

Pending ==
  [kind |-> "pending", attempts |-> 0, error |-> 0, selector |-> "",
   attemptIndex |-> 0]

\* An entry of the history: a page call with its outcome, or a delay.
UtilCall(k, sel, n, outcome, ms) ==
  [kind |-> k, selector |-> sel, n |-> n, outcome |-> outcome, ms |-> ms]

\* const maxRetries = options.retries || 3 (line 486)
SmartClickMaxRetries(args) == OptionOr(args.retries, DefaultClickRetries)

\* const retryDelay = options.retryDelay || 1000 (line 487)
SmartClickRetryDelay(args) == OptionOr(args.retryDelay, DefaultClickRetryDelay)

\* const timeout = options.timeout || 30000 (line 611)
FallbackTimeout(args) == OptionOr(args.timeout, DefaultFallbackTimeout)

\* What page.waitForSelector can do: resolve with the element, throw (timeout),
\* or, when waiting for a hidden or detached state, resolve with null.
WaitOutcomes(state) ==
  IF state = "visible" THEN {"element", "throws"} ELSE {"element", "null", "throws"}

\* One pass of the smartClick loop body (lines 489-508): the click, then
\* either the return, the delay before the next pass, or the rethrow. The
\* error a click throws is identified by the attempt that threw it.
SmartClickAttempt ==
  /\ utilFn = "smartClick"
  /\ utilPc = "loop"
  /\ utilIndex < SmartClickMaxRetries(utilArgs)
  /\ \E outcome \in {"ok", "throws"} :
       LET click == UtilCall("click", "", utilIndex + 1, outcome,
                             OptionOr(utilArgs.timeout, DefaultClickTimeout))
           delay == UtilCall("delay", "", utilIndex + 1, "ok",
                             SmartClickRetryDelay(utilArgs))
       IN IF outcome = "ok"
          THEN /\ utilCalls' = Append(utilCalls, click)
               /\ utilResult' = [Pending EXCEPT !.kind = "returned",
                                                !.attempts = utilIndex + 1]
               /\ utilPc' = "done"
               /\ UNCHANGED utilIndex
          ELSE IF utilIndex < SmartClickMaxRetries(utilArgs) - 1
          THEN /\ utilCalls' = utilCalls \o <<click, delay>>
               /\ utilIndex' = utilIndex + 1
               /\ UNCHANGED <<utilResult, utilPc>>
          ELSE /\ utilCalls' = Append(utilCalls, click)
               /\ utilResult' = [Pending EXCEPT !.kind = "threw",
                                                !.error = utilIndex + 1]
               /\ utilPc' = "done"
               /\ UNCHANGED utilIndex
  /\ UNCHANGED <<utilFn, utilArgs, exceptUtil>>

\* The loop condition of smartClick fails (line 489): the function ends
\* without a return statement and resolves undefined.
SmartClickLoopEnds ==
  /\ utilFn = "smartClick"
  /\ utilPc = "loop"
  /\ utilIndex >= SmartClickMaxRetries(utilArgs)
  /\ utilResult' = [Pending EXCEPT !.kind = "undefined"]
  /\ utilPc' = "done"
  /\ UNCHANGED <<utilFn, utilArgs, utilIndex, utilCalls, exceptUtil>>

\* One pass of the findElementWithFallback loop body (lines 613-634).
FallbackAttempt ==
  /\ utilFn = "findElementWithFallback"
  /\ utilPc = "loop"
  /\ utilIndex < Len(utilArgs.selectors)
  /\ \E outcome \in WaitOutcomes(utilArgs.state) :
       LET sel == utilArgs.selectors[utilIndex + 1]
           wait == UtilCall("waitForSelector", sel, utilIndex + 1, outcome,
                            FallbackTimeout(utilArgs) \div Len(utilArgs.selectors))
       IN /\ utilCalls' = Append(utilCalls, wait)
          /\ IF outcome = "element"
             THEN /\ utilResult' = [Pending EXCEPT !.kind = "returned",
                                                   !.selector = sel,
                                                   !.attemptIndex = utilIndex]
                  /\ utilPc' = "done"
                  /\ UNCHANGED utilIndex
             ELSE IF outcome = "throws" /\ utilIndex = Len(utilArgs.selectors) - 1
             THEN /\ utilResult' = [Pending EXCEPT !.kind = "threw",
                                                   !.error = Len(utilArgs.selectors)]
                  /\ utilPc' = "done"
                  /\ UNCHANGED utilIndex
             ELSE /\ utilIndex' = utilIndex + 1
                  /\ UNCHANGED <<utilResult, utilPc>>
  /\ UNCHANGED <<utilFn, utilArgs, exceptUtil>>

\* The loop condition of findElementWithFallback fails (line 613): the
\* function ends without a return statement and resolves undefined.
FallbackLoopEnds ==
  /\ utilFn = "findElementWithFallback"
  /\ utilPc = "loop"
  /\ utilIndex >= Len(utilArgs.selectors)
  /\ utilResult' = [Pending EXCEPT !.kind = "undefined"]
  /\ utilPc' = "done"
  /\ UNCHANGED <<utilFn, utilArgs, utilIndex, utilCalls, exceptUtil>>

UtilInit ==
  /\ \/ utilFn = "smartClick" /\ utilArgs \in SmartClickArgs
     \/ utilFn = "findElementWithFallback" /\ utilArgs \in FallbackArgs
  /\ utilIndex = 0
  /\ utilPc = "loop"
  /\ utilCalls = <<>>
  /\ utilResult = Pending

InitUtil ==
  UtilInit /\ EarlierIdle /\ PairIdle /\ LambdaIdle /\ ConfigIdle /\ MonitorIdle /\ OverlapIdle

NextUtil ==
  \/ SmartClickAttempt
  \/ SmartClickLoopEnds
  \/ FallbackAttempt
  \/ FallbackLoopEnds

SpecUtil == InitUtil /\ [][NextUtil]_vars

\* ------------------------------------------------------------------ claims

HandlesNow == <<driver, browser, context, page>>

HandlesBefore == <<last.pre.driver, last.pre.browser, last.pre.context, last.pre.page>>

\* C1: while the driver is not started, every interaction operation fails with
\* the 'Driver not started' error before it issues any engine call or touches
\* the filesystem.
C1_NotStartedFailsFast ==
  (last.op \in InteractionOps /\ ~last.pre.isStarted)
    => (last.outcome = "failed" /\ last.error = "NotStarted" /\ last.calls = <<>>)

\* C2: start() on an already-started driver warns, issues no engine command and
\* leaves the session handles unchanged (one live session); quit() on a driver
\* that is not started issues no engine call and does not throw.
C2_StartQuitIdempotent ==
  /\ (last.op = "start" /\ last.pre.isStarted)
       => /\ last.warned
          /\ last.calls = <<>>
          /\ HandlesNow = HandlesBefore
          /\ openRes = last.pre.openRes
          /\ isStarted
  /\ (last.op = "quit" /\ ~last.pre.isStarted)
       => /\ last.outcome = "noop"
          /\ last.calls = <<>>
          /\ HandlesNow = HandlesBefore
          /\ ~isStarted

\* C3: once quit() has completed on an instance, the instance stays Stopped: no
\* later start() makes it Started again or gives it a new engine handle.
C3_StoppedIsTerminal ==
  hasQuit => (~isStarted /\ HandlesNow = <<0, 0, 0, 0>>)

CloseRank(c) ==
  CASE c = "page.close" -> 1
    [] c = "context.close" -> 2
    [] c = "browser.close" -> 3
    [] OTHER -> 0

IsOpen(id, part) == <<id, part>> \in openRes

\* C4: PlaywrightDriver.quit() on a started driver closes page, context and
\* browser in that order, the browser process never before the context, and only
\* when all have closed does it set isStarted to false and clear the last URL.
C4_PlaywrightQuitOrder ==
  (kind = "playwright" /\ last.op = "quit" /\ last.pre.isStarted)
    => LET c == last.calls
           pre == last.pre
       IN /\ \A i, j \in 1..Len(c) : i < j => 0 < CloseRank(c[i]) /\ CloseRank(c[i]) < CloseRank(c[j])
          /\ ~IsOpen(pre.browser, "browser")
               => ~IsOpen(pre.context, "context") /\ ~IsOpen(pre.page, "page")
          /\ ~IsOpen(pre.context, "context") => ~IsOpen(pre.page, "page")
          /\ ~isStarted <=> last.outcome = "ok"
          /\ ~isStarted
               => /\ ~IsOpen(pre.page, "page")
                  /\ ~IsOpen(pre.context, "context")
                  /\ ~IsOpen(pre.browser, "browser")
                  /\ HandlesNow = <<0, 0, 0, 0>>
                  /\ currentUrl = NullUrl
          /\ isStarted => currentUrl = pre.currentUrl

C4_Witness ==
  /\ kind = "playwright"
  /\ last.op = "quit"
  /\ last.outcome = "ok"
  /\ last.calls = <<"page.close", "context.close", "browser.close">>
  /\ last.pre.currentUrl # NullUrl

FailingOps ==
  {"navigateTo", "findElement", "click", "sendKeys", "clearText", "getText",
   "takeScreenshot", "executeScript"}

\* C5: when one of these operations fails on a started driver (timeout or engine
\* error), isStarted stays true and the engine handles are unchanged, so the next
\* operation on the instance passes the started check.
C5_FailureKeepsSession ==
  (last.op \in FailingOps /\ last.outcome = "failed" /\ last.error = "OpFailed")
    => /\ last.pre.isStarted
       /\ isStarted
       /\ HandlesNow = HandlesBefore
       /\ openRes = last.pre.openRes
       /\ EnsureStarted

C5_Witness ==
  /\ last.op = "click"
  /\ last.outcome = "failed"
  /\ last.error = "OpFailed"
  /\ Len(last.calls) > 0

AllHandlesLive ==
  IF IsSelenium(kind) THEN driver # 0 /\ IsOpen(driver, "session")
  ELSE /\ page # 0 /\ IsOpen(page, "page")
       /\ context # 0 /\ IsOpen(context, "context")
       /\ browser # 0 /\ IsOpen(browser, "browser")

\* C6: after any failed operation (a quit() whose close throws included) the
\* driver is either Started (isStarted, every handle live, operations accepted)
\* or Stopped (not isStarted, every handle released); getIsStarted() is never
\* true while operations are rejected as not started.
C6_NoAmbiguousState ==
  (last.outcome = "failed")
    => /\ isStarted => (AllHandlesLive /\ EnsureStarted)
       /\ ~isStarted => HandlesNow = <<0, 0, 0, 0>>

IsLambda == env.fnName \/ env.execEnv

\* C7 as stated: with a sandbox marker set and the serverless binary
\* unresolvable, PlaywrightDriver.start() rejects with the
\* serverless-browser-unavailable error, never calls the engine launch and
\* leaves the driver not started.
C7_Original ==
  (kind = "playwright" /\ last.op = "start" /\ ~last.pre.isStarted
     /\ IsLambda /\ ~env.serverlessOk)
    => /\ last.outcome = "failed"
       /\ last.error = "ServerlessUnavailable"
       /\ ~("launch" \in Range(last.calls))
       /\ last.launch = NoLaunch
       /\ ~isStarted

\* C7 amended: the same, for a browser option start() supports (an unsupported
\* one is rejected by the switch before the environment is looked at).
C7_ServerlessFailFast ==
  (kind = "playwright" /\ last.op = "start" /\ ~last.pre.isStarted
     /\ IsLambda /\ ~env.serverlessOk
     /\ PlaywrightBrowserEngine(options.browser) # "unsupported")
    => /\ last.outcome = "failed"
       /\ last.error = "ServerlessUnavailable"
       /\ ~("launch" \in Range(last.calls))
       /\ last.launch = NoLaunch
       /\ ~isStarted
       /\ HandlesNow = <<0, 0, 0, 0>>
       /\ openRes = {}

C7_Witness ==
  /\ kind = "playwright"
  /\ last.op = "start"
  /\ env.execEnv /\ ~env.fnName /\ ~env.serverlessOk
  /\ options.browser = "firefox"
  /\ last.error = "ServerlessUnavailable"

Locates == {i \in DOMAIN events : events[i].e = "locate"}

RetryWaits == {i \in DOMAIN events : events[i].e = "retryWait"}

NeverClickable == \A i \in Locates : ~events[i].ok

\* C8: safeClick against an element that never becomes clickable makes exactly
\* maxRetries attempts, waits retryDelay between consecutive attempts and not
\* after the last one, then rejects with an error naming the selector and the
\* attempt count; once an attempt succeeds no further attempt is made.
C8_ExhaustionExact ==
  (rfn = "safeClick" /\ rpc = "done")
    => /\ NeverClickable
            => /\ Cardinality(Locates) = rargs.maxRetries
               /\ routcome = "rejected"
               /\ Len(events) > 0
               /\ events[Len(events)].e = "reject"
               /\ events[Len(events)].ms = rargs.maxRetries
               /\ Cardinality(RetryWaits) = rargs.maxRetries - 1
               /\ \A w \in RetryWaits :
                    /\ events[w].ms = rargs.retryDelay
                    /\ w > 1 /\ events[w - 1].e = "locate"
                    /\ w < Len(events) /\ events[w + 1].e = "locate"
       /\ \A i \in DOMAIN events :
            (events[i].e = "click" /\ events[i].ok)
              => i = Len(events) /\ routcome = "true"

NativeCalls == {"click", "clear", "sendKeys"}

\* C9: in every attempt of safeClick and safeSendKeys the element is located
\* again, then scrolled into view, and only then is the native click / clear /
\* sendKeys issued, on the handle located in that attempt: never in an attempt
\* whose locate or scroll failed, never on a handle of an earlier attempt.
C9_LocateScrollThenNative ==
  \A i \in DOMAIN events :
    events[i].e \in NativeCalls
      => /\ events[i].handle # 0
         /\ \E j, k \in 1..(i - 1) :
              /\ j < k
              /\ events[j].e = "locate" /\ events[j].ok
              /\ events[k].e = "scroll" /\ events[k].ok
              /\ events[j].attempt = events[i].attempt
              /\ events[k].attempt = events[i].attempt
              /\ events[j].handle = events[i].handle
              /\ events[k].handle = events[i].handle
         /\ \A j \in 1..(i - 1) :
              /\ (events[j].attempt = events[i].attempt
                    /\ events[j].e \in {"locate", "scroll"}) => events[j].ok
              /\ (events[j].attempt < events[i].attempt /\ events[j].e = "locate")
                    => events[j].handle # events[i].handle

C9_Witness ==
  /\ rfn = "safeSendKeys"
  /\ rargs.clearFirst
  /\ routcome = "true"
  /\ attempt = 3
  /\ handles = 3
  /\ \E i \in DOMAIN events : events[i].e = "sendKeys" /\ events[i].attempt = 3

\* The locator the claimed rule order gives: XPath, ID, ClassName, text prefix,
\* bare attr=value, raw CSS.
ClaimedLocator(s) ==
  IF StartsWith(s, <<"/", "/">>) \/ StartsWith(s, <<"(", "/", "/">>)
    THEN [by |-> "xpath", value |-> s]
  ELSE IF StartsWith(s, <<"#">>)
    THEN [by |-> "id", value |-> Substring(s, 1)]
  ELSE IF StartsWith(s, <<".">>)
    THEN [by |-> "className", value |-> Substring(s, 1)]
  ELSE IF StartsWith(s, TextPrefix)
    THEN [by |-> "xpath", value |-> ContainsTextXPath(Substring(s, 5))]
  ELSE IF StartsWith(s, PartialTextPrefix)
    THEN [by |-> "xpath", value |-> ContainsTextXPath(Substring(s, 13))]
  ELSE IF Includes(s, "=") /\ ~Includes(s, "[") /\ ~Includes(s, " ")
    THEN [by |-> "css", value |-> AttributeCss(SplitAttr(s), SplitValue(s))]
  ELSE [by |-> "css", value |-> s]

\* C10: getSmartSelector maps every non-empty selector to the one locator of the
\* first matching rule in the order XPath, ID, ClassName, text prefix, bare
\* attr=value, raw CSS; a text-prefixed selector containing '=' resolves by the
\* text rule.
C10_ResolutionOrder ==
  (locator.by # "none" /\ selector # <<>>)
    => locator = ClaimedLocator(selector)

\* The text of a bare attr=value selector before and after its first '='.
BeforeFirstEq(s) == SubSeq(s, 1, IndexFrom(s, "=", 1) - 1)

AfterFirstEq(s) == SubSeq(s, IndexFrom(s, "=", 1) + 1, Len(s))

\* A selector the bare attr=value rule is the first to match (no XPath, ID,
\* ClassName or text prefix; an '=', no '[' and no space).
IsBareAttribute(s) ==
  /\ ~StartsWith(s, <<"/", "/">>) /\ ~StartsWith(s, <<"(", "/", "/">>)
  /\ ~StartsWith(s, <<"#">>) /\ ~StartsWith(s, <<".">>)
  /\ ~StartsWith(s, TextPrefix) /\ ~StartsWith(s, PartialTextPrefix)
  /\ Includes(s, "=") /\ ~Includes(s, "[") /\ ~Includes(s, " ")

\* C11: a bare attr=value selector resolves to the attribute-equality CSS
\* selector [attr="value"] whose value is the whole text after the first '=',
\* from getSmartSelector and, for data-testid=value, from getSelectorInfo (type
\* 'testid'); a value containing '=' is kept in full.
C11_AttributeValueWhole ==
  /\ (locator.by # "none" /\ IsBareAttribute(selector))
       => locator = [by |-> "css",
                     value |-> AttributeCss(BeforeFirstEq(selector),
                                            AfterFirstEq(selector))]
  /\ (selectorInfo.type # "none" /\ StartsWith(selector, DataTestIdPrefix))
       => /\ selectorInfo.type = "testid"
          /\ selectorInfo.selector =
               AttributeCss(<<"data-testid">>, AfterFirstEq(selector))

\* C12: findElement, findElements and getSmartSelector resolve every selector
\* to the same locator strategy and payload.
C12_OneResolution ==
  /\ (findElementBy.by # "none" /\ locator.by # "none") => findElementBy = locator
  /\ (findElementsBy.by # "none" /\ locator.by # "none") => findElementsBy = locator
  /\ (findElementBy.by # "none" /\ findElementsBy.by # "none")
       => findElementBy = findElementsBy

\* C13 as stated: findElements never throws, in any driver state.
C13_Original ==
  last.op = "findElements" => last.outcome \in {"ok", "empty"}

PassedStartedCheck ==
  IF IsSelenium(kind) THEN EnsureStartedSelenium(last.pre.isStarted, last.pre.driver)
                      ELSE EnsureStartedPlaywright(last.pre.isStarted, last.pre.page)

\* C13 amended: on a driver that passes the started check findElements never
\* throws, whichever engine call fails: it returns an empty collection; on a
\* driver that is not started it fails fast with 'Driver not started'.
C13_FindElementsNeverThrows ==
  last.op = "findElements"
    => IF PassedStartedCheck
         THEN /\ last.outcome \in {"ok", "empty"}
              /\ last.error = "none"
              /\ Len(last.calls) = 1
         ELSE /\ last.outcome = "failed"
              /\ last.error = "NotStarted"
              /\ last.calls = <<>>

C13_Witness ==
  /\ last.op = "findElements"
  /\ last.outcome = "empty"
  /\ Len(last.calls) = 1
  /\ isStarted

SingularOps == {"findElement", "getText", "click", "sendKeys"}

\* C14: element-not-found on a singular query always propagates as an error:
\* findElement, getText, click, sendKeys (whose first awaited call is the
\* locate) and SeleniumUtils.getElementText never turn a missing element into a
\* normal return value.
C14_NotFoundPropagates ==
  /\ (last.op \in SingularOps /\ PassedStartedCheck /\ Len(last.calls) = 1
        /\ last.outcome # "ok")
       => last.outcome = "failed"
  /\ (rfn = "getElementText" /\ rpc = "done"
        /\ \E i \in DOMAIN events : events[i].e = "locate" /\ ~events[i].ok)
       => routcome = "rejected"

\* The identifier of what caused a failure of the operation.
CauseIdentifier(op) ==
  CASE op = "navigateTo" -> "url"
    [] op = "executeScript" -> "script"
    [] OTHER -> "selector"

IdentifiedOps ==
  {"navigateTo", "findElement", "click", "sendKeys", "clearText", "getText",
   "waitForElement", "waitForVisible", "waitForClickable", "executeScript"}

\* C15: every error a driver operation raises for a failed engine call carries
\* the identifier of what caused it: the selector for locate, interact and
\* extract failures, the URL for navigation failures, the script for
\* executeScript failures.
C15_ErrorNamesCause ==
  (last.op \in IdentifiedOps /\ last.outcome = "failed" /\ last.error = "OpFailed")
    => last.carries = CauseIdentifier(last.op)

CompositeWaits == {"click", "waitForVisible", "waitForClickable"}

\* C16: findElement against a selector that never matches fails with the
\* not-found error no earlier than its effective timeout and no later than twice
\* that timeout; the composite waits of BaseSeleniumDriver (click,
\* waitForVisible, waitForClickable) fail no later than twice the timeout.
C16_TimeoutWindow ==
  /\ (wop = "findElement" /\ woutcome = "notFound")
       => (elapsed >= applied[1] /\ elapsed <= 2 * applied[1])
  /\ (wdriver = "selenium" /\ wop \in CompositeWaits
        /\ woutcome \in {"notFound", "failed"})
       => elapsed <= 2 * applied[1]

\* C17: the timeout handed to every engine wait of the timed operations is the
\* per-call timeout whenever the caller supplied one (0 included), and the
\* configured default only when the caller supplied none.
C17_PerCallTimeoutWins ==
  \A i \in DOMAIN applied :
    applied[i] = IF wtimeout.supplied THEN wtimeout.ms ELSE woptions.timeout

FsCalls == {"fs.mkdir", "fs.writeFile", "page.screenshot(path)"}

\* C18: takeScreenshot with a filename returns the destination path only after
\* the destination directory was created and then the image write completed;
\* without a filename it returns the raw image data and creates no directory
\* and writes no file.
C18_WriteBeforeReturn ==
  /\ (shot.outcome = "ok" /\ Truthy(shot.filename))
       => /\ shot.returned = "path"
          /\ shot.directory \in dirs
          /\ \E x \in files : x.path = shot.path /\ x.id = shot.id
          /\ \E i, j \in DOMAIN shot.calls :
               /\ i < j
               /\ shot.calls[i] = "fs.mkdir"
               /\ shot.calls[j] = WriteCall(cdriver)
  /\ shot.returned = "path" => (shot.outcome = "ok" /\ Truthy(shot.filename))
  /\ (shot.outcome = "ok" /\ shot.filename = NullArg)
       => /\ shot.returned = "data"
          /\ Range(shot.calls) \cap FsCalls = {}
          /\ dirs = shot.preDirs
          /\ files = shot.preFiles

C18_Witness ==
  /\ cdriver = "selenium"
  /\ shot.outcome = "ok"
  /\ shot.returned = "path"
  /\ shot.calls = <<"takeScreenshot", "fs.mkdir", "fs.writeFile">>
  /\ shot.preDirs = {}

\* C19: two takeScreenshot calls with timestamping enabled and the same base
\* name, made within the same second, produce two distinct files: the second
\* never writes to the path the first wrote.
C19_DistinctWithinSecond ==
  ~ /\ shot.outcome = "ok"
    /\ shot.includeTimestamp
    /\ Truthy(shot.filename)
    /\ shot.replaced.id # 0
    /\ shot.replaced.stamped
    /\ shot.replaced.filename = shot.filename
    /\ shot.replaced.second = shot.second

\* C20: with timestamping disabled, repeated takeScreenshot calls with the same
\* filename, base directory and subdirectory resolve to the same path every
\* time and do not fail because the directory or the file exists: the mkdir is
\* a no-op and the file is overwritten with the new image.
C20_OverwriteDeterministic ==
  /\ shot.error # "EEXIST"
  /\ (shot.outcome = "ok" /\ Truthy(shot.filename) /\ ~shot.includeTimestamp)
       => /\ \A x \in shot.preFiles :
               (~x.stamped /\ x.filename = shot.filename
                  /\ x.directory = shot.directory)
                 => /\ x.path = shot.path
                    /\ shot.replaced = x
                    /\ x \notin files
          /\ Cardinality({x \in files : x.path = shot.path}) = 1
          /\ \E x \in files : x.path = shot.path /\ x.id = shot.id

C20_Witness ==
  /\ shot.outcome = "ok"
  /\ ~shot.includeTimestamp
  /\ shot.replaced.id # 0
  /\ ~shot.replaced.stamped
  /\ shot.replaced.filename = shot.filename
  /\ shot.directory \in shot.preDirs
  /\ shot.replaced.second < shot.second

\* C21: no driver operation mutates the configuration record after
\* construction: getOptions() returns the same values before and after every
\* start, interaction and quit call, for the base drivers and the
\* browser-specific subclasses. (The output-directory fields are assigned in the
\* constructors only.)
C21_ConfigurationFrozen ==
  last.op # "none" => options = last.pre.options

\* C22: the browser-binary decision of PlaywrightDriver.start() depends only on
\* the sandbox markers, the configured executable path and the browser: in the
\* environment that differs only in NODE_ENV, start() chooses the executable and
\* the launch arguments this run chose (or fails with the same error).
C22_DecisionIgnoresNodeEnv ==
  (kind = "playwright" /\ last.op = "start" /\ ~last.pre.isStarted
     /\ PlaywrightBrowserEngine(options.browser) # "unsupported")
    => \A ne \in NodeEnvs :
         LET other == PlaywrightBinaryDecision([env EXCEPT !.nodeEnv = ne], options)
         IN IF other.error # "none"
              THEN last.error = other.error /\ last.launch = NoLaunch
              ELSE /\ last.error # "ServerlessUnavailable"
                   /\ last.launch.exe = other.exe
                   /\ last.launch.sandboxArgs = other.sandboxArgs
                   /\ last.launch.serverlessArgs = other.serverlessArgs

C22_Witness ==
  /\ kind = "playwright"
  /\ last.op = "start"
  /\ last.outcome = "ok"
  /\ env.nodeEnv = "development"
  /\ env.fnName
  /\ last.launch.exe = "serverless"

Count(calls, names) == Cardinality({i \in DOMAIN calls : calls[i] \in names})

NavigationCalls == {"get", "page.goto"}

LocateCalls == {"wait.elementLocated", "page.textContent"}

ReadCalls == {"element.getText", "page.textContent"}

\* C23: navigateTo issues exactly one engine navigation per call and getText
\* makes exactly one locate-and-read attempt per call; neither is retried, and
\* a failure is reported to the caller after that single attempt.
C23_SingleAttempt ==
  /\ (last.op = "navigateTo" /\ PassedStartedCheck)
       => /\ Count(last.calls, NavigationCalls) = 1
          /\ last.outcome \in {"ok", "failed"}
          /\ last.calls[1] \in NavigationCalls
          /\ (last.outcome = "failed") => last.error = "OpFailed"
  /\ (last.op = "getText" /\ PassedStartedCheck)
       => /\ Count(last.calls, LocateCalls) = 1
          /\ Count(last.calls, ReadCalls) <= 1
          /\ Len(last.calls) <= 2
          /\ last.outcome \in {"ok", "failed"}
          /\ (last.outcome = "ok") => Count(last.calls, ReadCalls) = 1
          /\ (last.outcome = "failed") => last.error = "OpFailed"

C23_Witness ==
  /\ IsSelenium(kind)
  /\ last.op = "navigateTo"
  /\ last.outcome = "failed"
  /\ last.calls = <<"get">>
  /\ isStarted

\* C24: BaseSeleniumDriver and PlaywrightDriver implement the same lifecycle
\* contract: given the same start, quit, navigateTo and click calls, answered
\* alike by the engines, both report the same getIsStarted() after every call
\* and every call ends in the same outcome class on both.
C24_SameLifecycleContract ==
  answered.op # "none"
    => /\ selenium.isStarted = playwright.isStarted
       /\ answered.selenium = answered.playwright

\* C25: lambda_handler never rejects: it returns statusCode 200 with status
\* 'success' when the automation completed, statusCode 500 with status 'error'
\* and the error message otherwise; a failing quit() in the cleanup changes
\* neither the status code nor the recorded error.
C25_NeverRejects ==
  /\ lpc # "rejected"
  /\ lpc = "returned"
       => IF caught = "none"
            THEN /\ response.statusCode = 200
                 /\ response.status = "success"
                 /\ response.error = "null"
            ELSE /\ response.statusCode = 500
                 /\ response.status = "error"
                 /\ response.error = caught

Position(calls, name) == CHOOSE i \in DOMAIN calls : calls[i] = name

\* C26: on every exit path of lambda_handler on which start() had succeeded,
\* quit() is attempted exactly once, and before the response is returned.
C26_QuitOnceBeforeReturn ==
  /\ Count(trace, {"quit"}) <= 1
  /\ (lpc \in {"returned", "rejected"} /\ caught # "StartFailed"
        /\ Count(trace, {"start"}) = 1)
       => /\ Count(trace, {"quit"}) = 1
          /\ Position(trace, "quit") < Position(trace, "return")

C26_Witness ==
  /\ lpc = "returned"
  /\ caught = "FailedToNavigate"
  /\ Count(trace, {"quit"}) = 1
  /\ ldriver.isStarted

\* The entries of an object that hold the logical key: the same spelling when
\* keys are case-sensitive, the same lowercased spelling otherwise.
Holding(obj, key) ==
  {i \in DOMAIN obj :
     IF caseSensitive THEN obj[i].key = key
                      ELSE KeyToLowerCase(obj[i].key) = KeyToLowerCase(key)}

\* C27: get(key) returns the JSON-sourced value whenever the logical key is
\* present in both the JSON configuration and the environment; the environment
\* value only when the key is absent from the JSON configuration; the default
\* only when it is absent from both.
C27_JsonTakesPrecedence ==
  got.key # "none"
    => LET inJson == Holding(jsonConfig, got.key)
           inEnv == Holding(envConfig, got.key)
       IN /\ (inJson # {} /\ inEnv # {})
               => got.value \in {jsonConfig[i].value : i \in inJson}
          /\ got.value \in EnvValues => inJson = {}
          /\ got.value = DefaultValue => (inJson = {} /\ inEnv = {})

\* C28: in monitor mode a restart is attempted only after 3 consecutive failed
\* checks with no healthy check in between; a healthy check resets the failure
\* count to zero, and so does a successful restart.
C28_RestartAfterThreeFailures ==
  /\ monitored.restart => (monitored.kind = "failed" /\ streak >= 3)
  /\ monitored.kind = "healthy" => (consecutive_failures = 0 /\ ~monitored.restart)
  /\ monitored.kind = "restarted" => consecutive_failures = 0

C28_Witness ==
  /\ monitored.kind = "restarted"
  /\ streak = 3
  /\ consecutive_failures = 0

\* The sessions and browser processes that are open but that no field of the
\* instance refers to.
Unreferenced ==
  {r \in engineOpen : /\ r[2] \in {"session", "browser"}
                  /\ r[1] \notin {instance.driver, instance.browser}}

\* C29: when two start() calls on a not-yet-started instance overlap, at most
\* one session or browser is launched and retained: no launched session is left
\* running without a handle in the driver.
C29_OverlappingStartsLaunchOnce ==
  (\A c \in DOMAIN starts : starts[c] \notin {"idle", "returned", "rejected"})
    => /\ Unreferenced = {}
       /\ Cardinality({r \in engineOpen : r[2] \in {"session", "browser"}}) <= 1

\* C30: when start() rejects, no engine resource launched by that call remains
\* open or referenced: whatever was created before the failing step has been
\* closed, the driver's handles are null, and a later quit() has nothing left
\* to release.
C30_FailedStartReleasesAll ==
  (last.op = "start" /\ last.outcome = "failed")
    => /\ openRes \subseteq last.pre.openRes
       /\ HandlesNow = <<0, 0, 0, 0>>

\* C31: when navigateTo rejects, currentUrl is unchanged: it is updated only by
\* a navigateTo call that returns a result to the caller.
C31_RejectedNavigationKeepsUrl ==
  /\ (last.op = "navigateTo" /\ last.outcome = "failed")
       => currentUrl = last.pre.currentUrl
  /\ (last.op \in InteractionOps /\ currentUrl # last.pre.currentUrl)
       => (last.op = "navigateTo" /\ last.outcome = "ok")

Launched == last.op = "start" /\ "launch" \in Range(last.calls)

\* C32: in PlaywrightDriver.start() the Chromium-specific launch settings (the
\* serverless executable and its arguments, the custom executable path, the
\* --no-sandbox family) are applied exactly when the engine selected from
\* options.browser is Chromium, for every accepted spelling and in both sandbox
\* and local environments.
C32_ChromiumSettingsFollowEngine ==
  (kind = "playwright" /\ Launched)
    => LET isChromium == last.launch.engine = "chromium"
       IN /\ last.launch.sandboxArgs <=> isChromium
          /\ last.launch.serverlessArgs <=> (isChromium /\ IsLambda)
          /\ last.launch.exe = "serverless" <=> (isChromium /\ IsLambda)
          /\ last.launch.exe = "custom"
               <=> (isChromium /\ ~IsLambda /\ env.customExe)

RetryHelpers == {"safeClick", "safeSendKeys"}

NativeInteraction == IF rfn = "safeClick" THEN "click" ELSE "sendKeys"

\* C33: for every maxRetries (0 included) safeClick and safeSendKeys either
\* resolve true after an attempt whose native click / sendKeys succeeded, or
\* reject with the exhaustion error; they never resolve false and never resolve
\* without having performed the interaction.
C33_TrueOrRejected ==
  (rfn \in RetryHelpers /\ rpc = "done")
    => /\ routcome \in {"true", "rejected"}
       /\ routcome = "true"
            => \E i \in DOMAIN events :
                 events[i].e = NativeInteraction /\ events[i].ok
       /\ routcome = "rejected"
            => (Len(events) > 0 /\ events[Len(events)].e = "reject")

\* The successful sendKeys since the last successful clear (or since the call
\* began when nothing was cleared).
Cleared == {i \in DOMAIN events : events[i].e = "clear" /\ events[i].ok}

TypedSinceCleared ==
  {i \in DOMAIN events : /\ events[i].e = "sendKeys"
                         /\ events[i].ok
                         /\ \A c \in Cleared : c < i}

\* C34: retrying safeSendKeys never accumulates input, for either value of
\* clearFirst: whenever it resolves true the element has received the text
\* exactly once since it was last cleared, or since the call began when it was
\* never cleared.
C34_NoAccumulatedInput ==
  (rfn = "safeSendKeys" /\ rpc = "done" /\ routcome = "true")
    => Cardinality(TypedSinceCleared) = 1

\* ---- C35
Clicks == SelectSeq(utilCalls, LAMBDA c : c.kind = "click")

\* The number of click calls the caller allowed: options.retries, 3 when the
\* option is left out.
RetriesAllowed ==
  IF utilArgs.retries.supplied THEN utilArgs.retries.v ELSE DefaultClickRetries

\* C35: smartClick issues at most options.retries click calls (3 when the
\* option is left out), no call follows a successful click and the reported
\* attempts is the number of click calls made; when it rethrows, the error is
\* that of the last click call and no delay follows it.
C35_SmartClickBounded ==
  (utilFn = "smartClick" /\ RetriesAllowed >= 0) =>
    /\ Len(Clicks) <= RetriesAllowed
    /\ \A k \in 1..Len(utilCalls) :
         (utilCalls[k].kind = "click" /\ utilCalls[k].outcome = "ok")
           => k = Len(utilCalls)
    /\ utilResult.kind = "returned"
         => /\ utilResult.attempts = Len(Clicks)
            /\ utilCalls[Len(utilCalls)].outcome = "ok"
    /\ utilResult.kind = "threw"
         => /\ utilCalls[Len(utilCalls)].kind = "click"
            /\ utilCalls[Len(utilCalls)].outcome = "throws"
            /\ utilResult.error = utilCalls[Len(utilCalls)].n

\* ---- C36
\* C36: findElementWithFallback waits for the selectors in list order, each
\* with the timeout divided by the number of selectors, returns the first
\* selector an element is found for, throws when none is found, and never
\* settles without an element or an error.
C36_FallbackFindsOrThrows ==
  utilFn = "findElementWithFallback" =>
    /\ \A k \in 1..Len(utilCalls) :
         /\ utilCalls[k].selector = utilArgs.selectors[k]
         /\ utilCalls[k].ms * Len(utilArgs.selectors) = FallbackTimeout(utilArgs)
         /\ utilCalls[k].outcome = "element" => k = Len(utilCalls)
    /\ utilResult.kind = "returned"
         => /\ utilCalls[Len(utilCalls)].outcome = "element"
            /\ utilResult.selector = utilCalls[Len(utilCalls)].selector
    /\ utilResult.kind = "threw"
         => /\ Len(utilCalls) = Len(utilArgs.selectors)
            /\ \A k \in 1..Len(utilCalls) : utilCalls[k].outcome # "element"
    /\ utilPc = "done" => utilResult.kind \in {"returned", "threw"}

\* ---- C37
\* C37: with NODE_ENV 'production' the response of lambda_handler carries no
\* stack trace and its error part is determined by the error's message alone,
\* whatever stack the thrown error had; a stack in the body is the thrown
\* error's, and the run is not a production one.
C37_NoStackInProduction ==
  /\ (NODE_ENV = "production" /\ caught # "none" /\ lpc \in {"finally", "quit", "return", "returned"})
       => /\ response.stack = "absent"
          /\ [statusCode |-> response.statusCode, status |-> response.status,
              error |-> response.error, stack |-> response.stack]
               = [statusCode |-> 500, status |-> "error", error |-> caught,
                  stack |-> "absent"]
  /\ response.stack # "absent"
       => /\ NODE_ENV # "production"
          /\ response.stack = thrownStack
          /\ thrownStack \in Stacks

\* A production run that failed with a stack-carrying error and has returned.
C37_Witness ==
  /\ lpc = "returned"
  /\ NODE_ENV = "production"
  /\ caught = "StartFailed"
  /\ thrownStack = "at PlaywrightDriver.start (playwrightDriver.js)"
  /\ response.statusCode = 500

\* ---- C38
\* What the three read operations say about the key of the last set().
SetKeyGot ==
  Get(jsonConfig, jsonLoaded, jsonConfigLowerCase, envConfig, caseSensitive,
      setCall.key, DefaultValue)

SetKeyHas ==
  Has(jsonConfig, jsonLoaded, jsonConfigLowerCase, envConfig, caseSensitive,
      setCall.key)

SetKeyInAll == HasOwnProperty(GetAll(jsonConfig, envConfig), setCall.key)

\* C38: after set(key, value) with a non-null value, get(key) returns value,
\* whatever the environment holds and whether or not a file was loaded; a set()
\* that throws leaves the configuration as it was; get(), has() and getAll()
\* agree on the presence of the key.
C38_SetThenGet ==
  (setCall.key # "none" /\ setCall.value # "null") =>
    /\ setCall.outcome = "ok" => SetKeyGot = setCall.value
    /\ got.key = setCall.key => got.value = SetKeyGot
    /\ setCall.outcome = "threw" => jsonConfig = setCall.pre
    /\ SetKeyHas <=> SetKeyInAll
    /\ SetKeyInAll <=> (SetKeyGot # DefaultValue)

\* ---- C39
Restarting == {p \in Invocations : checks[p] = "restartContainer"}

\* C39: in monitor mode at most one invocation of check() is awaiting
\* restartContainer() at any time, overlapping invocations included.
C39_OneRestartAtATime == Cardinality(Restarting) <= 1

=============================================================================
